---------------------------- MODULE Spec2Model ----------------------------
(***************************************************************************)
(* subbit-man: liaison cycle (liaison.js), decision predicates             *)
(* (decisions.js) and the chain synchronizer (POST /l1/sync-from-chain in  *)
(* l1Routes.js).                                                           *)
(*                                                                         *)
(* The specifications share the module's variables:                        *)
(*   SpecDecide   the pure predicates shouldSettle / shouldSub             *)
(*   SpecLiaison  runLiaisonCycle and its callers (timer task, manual      *)
(*                route)                                                   *)
(*   SpecSync     the handler of POST /l1/sync-from-chain                  *)
(*   SpecProc     the handlers of POST /l1/process-closed-channels and     *)
(*                POST /l1/process-ious                                    *)
(*   SpecSettle   the same with the handler of POST /l1/settle-channel     *)
(*   SpecRerun    requests to POST /l1/process-ious one after the other    *)
(*                against one chain and one IOU store                      *)
(*   SpecErrors   the error classifier parseLucidError (errors.js)         *)
(*   SpecExact    shouldSettle / shouldSub on amounts beyond 2^53          *)
(*   SpecCycle    runLiaisonCycle with the sync handler behind its first   *)
(*                request, under fairness of every remote answer           *)
(*   SpecMatch    the lookup of a channel's claim record by keytag suffix  *)
(*   SpecResettle settlement requests one after the other against one      *)
(*                chain and one IOU store                                  *)
(*   SpecFallback POST /l1/liaison-run without runLiaisonCycle             *)
(* JavaScript runs one callback at a time: an action is the code between   *)
(* two awaits.                                                             *)
(***************************************************************************)
EXTENDS Integers, Sequences, FiniteSets, TLC

VARIABLES
  \* ---- decisions.js: one call of a predicate
  dFn,          \* "none" | "shouldSettle" | "shouldSub": the predicate applied
  dKind,        \* argument channelStateKind
  dIou,         \* argument iouData
  dSub,         \* argument currentSub
  dThr,         \* argument threshold
  dOut,         \* outcome of the call
  \* ---- liaison.js
  running,      \* the flag `let running` of the plugin
  pc,           \* per caller: where its runLiaisonCycle call stands
  startTime,    \* per caller: const startTime
  results,      \* per caller: const results = {}
  inflight,     \* per caller: injected requests not yet answered
  stepLog,      \* per caller: the injected urls in the order they were issued
  ret,          \* per caller: what the call gave its caller
  now,          \* Date.now()
  \* ---- l1Routes.js: one request to POST /l1/sync-from-chain
  spc,          \* where the handler stands
  reqProvider,  \* req.body.providerKeyHash
  cfgProvider,  \* config.PROVIDER_KEY_HASH
  cfgDryRun,    \* config.DRY_RUN
  attempt,      \* loop variable `attempt`
  subbits,      \* let subbits
  reads,        \* every result getStates gave this request, in order
  delays,       \* number of delayMs waits this request made
  pending,      \* putL1 promises not yet settled (channels)
  syncResult,   \* the [tag, value] pairs collected by Promise.all
  reply,        \* the response of the request
  store,        \* the local store written by putL1: keytag -> l1 subbit
  store0,       \* the store as it was when this request arrived
  putLog,       \* keytags putL1 was called with by this request
  \* ---- l1Routes.js: one request to POST /l1/process-closed-channels or
  \* ---- POST /l1/process-ious
  ppc,          \* where the handler stands
  pProc,        \* "settle" (process-closed-channels) | "subs" (process-ious) |
                \* "settleOne" (settle-channel)
  validatorRef, \* lucidCtx.validatorRef is set (reference script fetched)
  cfgThreshold, \* SUBBIT_MAN_SUB_THRESHOLD_LOVELACE
  chain,        \* what getStates / utxosAt gave this request
  ious,         \* what getIous gave this request, in Object.entries order
  jobs,         \* settleJobs / subJobs
  remaining,    \* fallback loop: jobs not yet reached
  current,      \* fallback loop: the job of the running iteration
  pResults,     \* const results
  submits,      \* every try block entered by this request, in order
  detached,     \* awaitTx promises nobody awaits that have not settled
  pReply,       \* what the handler returned
  \* ---- the chain and the IOU store over successive requests to
  \* ---- POST /l1/process-ious
  ledger,       \* the channels at the validator address, as utxosAt gives them
  iouStore,     \* the claim records getIous gives
  mempool,      \* sub steps of accepted transactions not yet on the ledger
  runs,         \* requests answered so far
  prev,         \* the answer to the previous request
  \* ---- errors.js: one call of parseLucidError
  eMsg,         \* error.message
  eCause,       \* error.cause
  eOut,         \* what parseLucidError returned
  \* ---- decisions.js on amounts of any magnitude
  nFn,          \* "none" | "shouldSettle" | "shouldSub": the predicate applied
  nIou,         \* argument iouData
  nSub,         \* argument currentSub
  nThr,         \* argument threshold
  nOut,         \* outcome of the call
  \* ---- l1Routes.js: the lookup of the claim record of a Closed channel
  mFn,          \* "none" or the handler that looked up
  mIous,        \* Object.entries(ious), each with the channel it was stored for
  mTag,         \* the on-chain tag hex of the channel
  mOut          \* const iouEntry

dvars == <<dFn, dKind, dIou, dSub, dThr, dOut>>
lvars == <<running, pc, startTime, results, inflight, stepLog, ret, now>>
svars == <<spc, reqProvider, cfgProvider, cfgDryRun, attempt, subbits, reads, delays,
           pending, syncResult, reply, store, store0, putLog>>
pvars == <<ppc, pProc, validatorRef, cfgThreshold, chain, ious, jobs, remaining, current,
           pResults, submits, detached, pReply>>
rvars == <<ledger, iouStore, mempool, runs, prev>>
evars == <<eMsg, eCause, eOut>>
nvars == <<nFn, nIou, nSub, nThr, nOut>>
mvars == <<mFn, mIous, mTag, mOut>>
vars == <<dvars, lvars, svars, pvars, rvars, evars, nvars, mvars>>

(***************************************************************************)
(* Bounds                                                                  *)
(***************************************************************************)
MaxLen == 2        \* longest iouAmt string drawn
MaxSub == 2        \* largest currentSub drawn
MaxThr == 2        \* largest threshold drawn

(***************************************************************************)
(* decisions.js                                                            *)
(***************************************************************************)
\* Strings are sequences of characters.  "a" stands for any character that
\* is no digit and no sign (no radix prefix 0x/0o/0b can be formed).
Digits == {"0", "1", "2", "3", "4", "5", "6", "7", "8", "9"}
Chars == {"0", "1", "2", "3", "-", "a"}
Strs == UNION {[1..k -> Chars] : k \in 0..MaxLen}

\* A property that is not there reads as undefined.
Undefined == <<"undefined">>
\* iouData = undefined
NoIou == [absent |-> TRUE]

DigitSeq == <<"0", "1", "2", "3", "4", "5", "6", "7", "8", "9">>
DigitVal(c) == CHOOSE d \in 0..9 : DigitSeq[d + 1] = c

RECURSIVE DecVal(_)
DecVal(s) ==
  IF s = <<>> THEN 0
  ELSE 10 * DecVal(SubSeq(s, 1, Len(s) - 1)) + DigitVal(s[Len(s)])

AllDigits(s) == s # <<>> /\ \A i \in 1..Len(s) : s[i] \in Digits

\* BigInt(string): the empty string is 0n, an optional sign and decimal
\* digits give the integer, anything else is a SyntaxError.
BigIntOf(s) ==
  IF s = <<>> THEN [ok |-> TRUE, val |-> 0]
  ELSE IF AllDigits(s) THEN [ok |-> TRUE, val |-> DecVal(s)]
  ELSE IF s[1] = "-" /\ AllDigits(Tail(s))
         THEN [ok |-> TRUE, val |-> 0 - DecVal(Tail(s))]
  ELSE [ok |-> FALSE, val |-> 0]

\* JavaScript truthiness of a string-valued property
Falsy(s) == s = Undefined \/ s = <<>>
\* a || "0"
OrZero(s) == IF Falsy(s) THEN <<"0">> ELSE s

Returned(b) == [threw |-> FALSE, value |-> b]
Threw == [threw |-> TRUE, value |-> FALSE]

shouldSettleZeroOk(channelStateKind, iouData) ==
  IF channelStateKind # "Closed" THEN Returned(FALSE)
  ELSE IF iouData = NoIou THEN Returned(FALSE)
  ELSE LET amt == BigIntOf(OrZero(iouData.iouAmt)) IN
       IF ~amt.ok THEN Threw
       ELSE IF amt.val < 0 THEN Returned(FALSE)
       ELSE IF Falsy(iouData.sig) THEN Returned(FALSE)
       ELSE Returned(TRUE)

shouldSettle(channelStateKind, iouData) ==
  IF channelStateKind # "Closed" THEN Returned(FALSE)
  ELSE IF iouData = NoIou THEN Returned(FALSE)
  ELSE LET amt == BigIntOf(OrZero(iouData.iouAmt)) IN
       IF ~amt.ok THEN Threw
       ELSE IF amt.val <= 0 THEN Returned(FALSE)
       ELSE IF Falsy(iouData.sig) THEN Returned(FALSE)
       ELSE Returned(TRUE)

shouldSubAtBoundary(iouData, currentSub, threshold) ==
  IF iouData = NoIou THEN Returned(FALSE)
  ELSE IF Falsy(iouData.sig) THEN Returned(FALSE)
  ELSE LET iouAmt == BigIntOf(OrZero(iouData.iouAmt)) IN
       IF ~iouAmt.ok THEN Threw
       ELSE IF iouAmt.val < currentSub + threshold THEN Returned(FALSE)
       ELSE Returned(TRUE)

shouldSub(iouData, currentSub, threshold) ==
  IF iouData = NoIou THEN Returned(FALSE)
  ELSE IF Falsy(iouData.sig) THEN Returned(FALSE)
  ELSE LET iouAmt == BigIntOf(OrZero(iouData.iouAmt)) IN
       IF ~iouAmt.ok THEN Threw
       ELSE IF iouAmt.val <= currentSub + threshold THEN Returned(FALSE)
       ELSE Returned(TRUE)

StateKinds == {"Opened", "Closed", "Settled"}
Sigs == {Undefined, <<>>, <<"a", "b">>}
IouDatas == {NoIou} \cup [iouAmt : Strs \cup {Undefined}, sig : Sigs]

DecideInit ==
  /\ dFn = "none"
  /\ dKind \in StateKinds
  /\ dIou \in IouDatas
  /\ dSub \in 0..MaxSub
  /\ dThr \in 0..MaxThr
  /\ dOut = Returned(FALSE)

CallShouldSettle ==
  /\ dFn = "none"
  /\ dFn' = "shouldSettle"
  /\ dOut' = shouldSettle(dKind, dIou)
  /\ UNCHANGED <<dKind, dIou, dSub, dThr>>

CallShouldSub ==
  /\ dFn = "none"
  /\ dFn' = "shouldSub"
  /\ dOut' = shouldSub(dIou, dSub, dThr)
  /\ UNCHANGED <<dKind, dIou, dSub, dThr>>

DecideNext ==
  \/ CallShouldSettle /\ UNCHANGED <<lvars, svars, pvars, rvars, evars, nvars, mvars>>
  \/ CallShouldSub /\ UNCHANGED <<lvars, svars, pvars, rvars, evars, nvars, mvars>>

(***************************************************************************)
(* liaison.js: runLiaisonCycle and its callers                             *)
(***************************************************************************)
MaxTime == 1       \* Date.now() advances up to here

\* The callers of runLiaisonCycle: the AsyncTask of the interval job and
\* concurrent requests to POST /l1/liaison-run.
Callers == {"scheduled", "manualA", "manualB"}
TriggerOf(c) == IF c = "scheduled" THEN "scheduled" ELSE "manual"

\* The three injected requests, by the slot of `results` they fill.
Steps == {"sync", "settle", "subs"}
FirstStep == "sync"
LastStep == "subs"

StepAfterSwapped(step) ==
  CASE step = "sync" -> "subs" [] step = "subs" -> "settle" [] OTHER -> "subs"

\* The order in which the try block issues the requests.
StepAfter(step) ==
  CASE step = "sync" -> "settle" [] step = "settle" -> "subs" [] OTHER -> "subs"

\* JSON.parse(res.payload): the handler's own return value, or the body the
\* error handler of index.js (or res.badRequest) wrote for it.
Payloads == {"body", "errorBody"}

EmptyResults ==
  [sync |-> "unset", settle |-> "unset", subs |-> "unset", error |-> "unset"]
NoRet == [none |-> TRUE]

SkippedResult == [skipped |-> TRUE, reason |-> "already running"]

CycleResultNoDuration(c, res) ==
  [trigger |-> TriggerOf(c), results |-> res, timestamp |-> now]

\* return { trigger, results, durationMs, timestamp }
CycleResult(c, res) ==
  [trigger |-> TriggerOf(c), results |-> res,
   durationMs |-> now - startTime[c], timestamp |-> now]

LiaisonInit ==
  /\ running = FALSE
  /\ pc = [c \in Callers |-> "idle"]
  /\ startTime = [c \in Callers |-> 0]
  /\ results = [c \in Callers |-> EmptyResults]
  /\ inflight = [c \in Callers |-> {}]
  /\ stepLog = [c \in Callers |-> <<>>]
  /\ ret = [c \in Callers |-> NoRet]
  /\ now = 0

\* fastify.inject({method: "POST", url, payload: {}}) for slot `step`
Inject(c, step) ==
  /\ inflight' = [inflight EXCEPT ![c] = @ \cup {step}]
  /\ stepLog' = [stepLog EXCEPT ![c] = Append(@, step)]
  /\ pc' = [pc EXCEPT ![c] = step]

EnterUnguarded(c) ==
  /\ pc[c] = "idle"
  /\ running' = TRUE
  /\ startTime' = [startTime EXCEPT ![c] = now]
  /\ results' = [results EXCEPT ![c] = EmptyResults]
  /\ Inject(c, FirstStep)
  /\ UNCHANGED <<ret, now>>

EnterQueued(c) ==
  /\ pc[c] = "idle"
  /\ IF running
       THEN /\ pc' = [pc EXCEPT ![c] = "queued"]
            /\ UNCHANGED <<running, startTime, results, inflight, stepLog, ret>>
       ELSE /\ running' = TRUE
            /\ startTime' = [startTime EXCEPT ![c] = now]
            /\ results' = [results EXCEPT ![c] = EmptyResults]
            /\ Inject(c, FirstStep)
            /\ UNCHANGED ret
  /\ UNCHANGED now

\* A caller calls runLiaisonCycle(trigger): the code up to the first await.
\* The interval job has preventOverrun: the task is not started again while
\* its last run has not finished.
Enter(c) ==
  /\ pc[c] = "idle"
  /\ IF running
       THEN /\ ret' = [ret EXCEPT ![c] = SkippedResult]
            /\ pc' = [pc EXCEPT ![c] = "returned"]
            /\ UNCHANGED <<running, startTime, results, inflight, stepLog>>
       ELSE /\ running' = TRUE
            /\ startTime' = [startTime EXCEPT ![c] = now]
            /\ results' = [results EXCEPT ![c] = EmptyResults]
            /\ Inject(c, FirstStep)
            /\ UNCHANGED ret
  /\ UNCHANGED now

\* finally { running = false } and the return statement
Finish(c, res) ==
  /\ running' = FALSE
  /\ ret' = [ret EXCEPT ![c] = CycleResult(c, res)]
  /\ pc' = [pc EXCEPT ![c] = "returned"]
  /\ results' = [results EXCEPT ![c] = res]

\* An injected request is answered and its payload parses: the slot is
\* filled, and the next request is issued or the cycle ends.
StepReplied(c, payload) ==
  /\ pc[c] \in Steps
  /\ pc[c] \in inflight[c]
  /\ LET step == pc[c]
         res == [results[c] EXCEPT ![step] = payload]
     IN IF step = LastStep
          THEN /\ Finish(c, res)
               /\ inflight' = [inflight EXCEPT ![c] = @ \ {step}]
               /\ UNCHANGED stepLog
          ELSE /\ results' = [results EXCEPT ![c] = res]
               /\ inflight' = [inflight EXCEPT ![c] = (@ \ {step}) \cup {StepAfter(step)}]
               /\ stepLog' = [stepLog EXCEPT ![c] = Append(@, StepAfter(step))]
               /\ pc' = [pc EXCEPT ![c] = StepAfter(step)]
               /\ UNCHANGED <<running, ret>>
  /\ UNCHANGED <<startTime, now>>

StepThrewUncaught(c) ==
  /\ pc[c] \in Steps
  /\ pc[c] \in inflight[c]
  /\ running' = FALSE
  /\ ret' = [ret EXCEPT ![c] = [exception |-> "message"]]
  /\ pc' = [pc EXCEPT ![c] = "threw"]
  /\ inflight' = [inflight EXCEPT ![c] = @ \ {pc[c]}]
  /\ UNCHANGED <<results, stepLog, startTime, now>>

StepThrewFlagKept(c) ==
  /\ pc[c] \in Steps
  /\ pc[c] \in inflight[c]
  /\ ret' = [ret EXCEPT ![c] =
               CycleResult(c, [results[c] EXCEPT !.error = "message"])]
  /\ pc' = [pc EXCEPT ![c] = "returned"]
  /\ results' = [results EXCEPT ![c] = [@ EXCEPT !.error = "message"]]
  /\ inflight' = [inflight EXCEPT ![c] = @ \ {pc[c]}]
  /\ UNCHANGED <<running, stepLog, startTime, now>>

\* The awaited inject rejects, or JSON.parse throws on its payload: control
\* leaves the try block for catch (results.error = err.message), finally and
\* the return statement.
StepThrew(c) ==
  /\ pc[c] \in Steps
  /\ pc[c] \in inflight[c]
  /\ Finish(c, [results[c] EXCEPT !.error = "message"])
  /\ inflight' = [inflight EXCEPT ![c] = @ \ {pc[c]}]
  /\ UNCHANGED <<stepLog, startTime, now>>

\* The caller takes the value: the task's promise resolves, or the route
\* sends it as the response.  The call's locals are gone.
Respond(c) ==
  /\ pc[c] = "returned"
  /\ pc' = [pc EXCEPT ![c] = "idle"]
  /\ ret' = [ret EXCEPT ![c] = NoRet]
  /\ results' = [results EXCEPT ![c] = EmptyResults]
  /\ stepLog' = [stepLog EXCEPT ![c] = <<>>]
  /\ startTime' = [startTime EXCEPT ![c] = 0]
  /\ UNCHANGED <<running, inflight, now>>

\* Time passes.
Tick ==
  /\ now < MaxTime
  /\ now' = now + 1
  /\ UNCHANGED <<running, pc, startTime, results, inflight, stepLog, ret>>

LiaisonNext ==
  \/ \E c \in Callers : Enter(c) /\ UNCHANGED <<dvars, svars, pvars, rvars, evars, nvars, mvars>>
  \/ \E c \in Callers, payload \in Payloads :
        StepReplied(c, payload) /\ UNCHANGED <<dvars, svars, pvars, rvars, evars, nvars, mvars>>
  \/ \E c \in Callers : StepThrew(c) /\ UNCHANGED <<dvars, svars, pvars, rvars, evars, nvars, mvars>>
  \/ \E c \in Callers : Respond(c) /\ UNCHANGED <<dvars, svars, pvars, rvars, evars, nvars, mvars>>
  \/ Tick /\ UNCHANGED <<dvars, svars, pvars, rvars, evars, nvars, mvars>>

(***************************************************************************)
(* l1Routes.js: POST /l1/sync-from-chain                                   *)
(***************************************************************************)
MaxSubbed == 1     \* largest on-chain `subbed` drawn
maxAttempts == 5

Tags == {"t1", "t2"}
Providers == {"P1", "P2"}
\* "" is the unset key hash (the default of PROVIDER_KEY_HASH, an absent body field)
NoProvider == ""

\* What getStates can give for one channel.  A subbit also carries its utxo,
\* amt and the other constants; the handler copies them through unread.
SubbitStates == [kind : StateKinds, provider : Providers, subbed : 0..MaxSubbed]
Snapshots ==
  UNION {{{[tag |-> t, state |-> f[t]] : t \in T} : f \in [T -> SubbitStates]} :
           T \in SUBSET Tags}

\* constants.iouKey of the channel with this tag
IouKeyOf(tag) == <<"iouKey", tag>>
\* keys.keytag(iouKey, tag): the key followed by the tag
keytag(iouKey, tag) == <<iouKey, tag>>
Keytags == {keytag(IouKeyOf(t), t) : t \in Tags}

\* String(n) of a non-negative integer
RECURSIVE ToStr(_)
ToStr(n) ==
  IF n < 10 THEN <<DigitSeq[n + 1]>>
  ELSE Append(ToStr(n \div 10), DigitSeq[(n % 10) + 1])

\* formatChannelForSync: null unless Opened
formatChannelForSync(subbit) ==
  IF subbit.state.kind # "Opened" THEN [null |-> TRUE]
  ELSE [provider |-> subbit.state.provider,
        iouKey |-> IouKeyOf(subbit.tag),
        tag |-> subbit.tag,
        sub |-> ToStr(subbit.state.subbed)]

OpenedChannelsAnyProvider(subs, providerKeyHash) ==
  {x \in subs : x.state.kind = "Opened"}

\* openedChannels: both filters of the handler
OpenedChannels(subs, providerKeyHash) ==
  {s \in {x \in subs : x.state.kind = "Opened"} :
     s.state.kind = "Opened" /\ s.state.provider = providerKeyHash}

\* channelsForSync = openedChannels.map(formatChannelForSync).filter(Boolean)
ChannelsForSync(opened) ==
  {formatChannelForSync(s) : s \in opened} \ {[null |-> TRUE]}

\* the l1Subbit handed to putL1
L1Subbit(ch) == [sub |-> BigIntOf(ch.sub).val]

NoRecord == [none |-> TRUE]
putL1EffectSweep(st, kt, l1) ==
  [k \in DOMAIN st |->
     IF k = kt THEN l1
     ELSE IF st[k] = NoRecord THEN NoRecord ELSE [suspended |-> TRUE]]

\* putL1 answering Right: the record under the keytag is replaced
putL1Effect(st, kt, l1) == [st EXCEPT ![kt] = l1]

BadRequestReply ==
  [statusCode |-> 400, message |-> "No provider key hash configured or provided"]
NoopReply == [success |-> FALSE, message |-> "No channels found to sync"]
SyncedReply(n, sr) ==
  [success |-> TRUE, message |-> "Channels synced", channelCount |-> n,
   syncResult |-> sr]
\* the body setErrorHandler writes when the handler throws
ErrorReply == [statusCode |-> 500, error |-> "Internal Server Error"]
NoReply == [none |-> TRUE]

\* req.body?.providerKeyHash || config.PROVIDER_KEY_HASH
ProviderKeyHash == IF reqProvider # NoProvider THEN reqProvider ELSE cfgProvider

SyncInit ==
  /\ spc = "idle"
  /\ reqProvider = NoProvider
  /\ cfgProvider \in {NoProvider, "P1"}
  /\ cfgDryRun \in BOOLEAN
  /\ attempt = 0
  /\ subbits = {}
  /\ reads = <<>>
  /\ delays = 0
  /\ pending = {}
  /\ syncResult = {}
  /\ reply = NoReply
  /\ store = [k \in Keytags |-> NoRecord]
  /\ store0 = [k \in Keytags |-> NoRecord]
  /\ putLog = {}

\* A request arrives: the code up to the first getStates call.
SyncRequest(rp) ==
  /\ spc = "idle"
  /\ reqProvider' = rp
  /\ store0' = store
  /\ subbits' = {}
  /\ reads' = <<>>
  /\ delays' = 0
  /\ pending' = {}
  /\ syncResult' = {}
  /\ putLog' = {}
  /\ IF rp = NoProvider /\ cfgProvider = NoProvider
       THEN /\ spc' = "done"
            /\ reply' = BadRequestReply
            /\ attempt' = 0
       ELSE /\ spc' = "fetching"
            /\ reply' = NoReply
            /\ attempt' = 1
  /\ UNCHANGED <<cfgProvider, cfgDryRun, store>>

AfterLoopThrowOnEmpty(subs) ==
  IF subs = {}
    THEN /\ spc' = "done"
         /\ reply' = ErrorReply
         /\ UNCHANGED <<pending, putLog>>
    ELSE LET chans == ChannelsForSync(OpenedChannels(subs, ProviderKeyHash)) IN
         IF chans = {}
           THEN /\ spc' = "done"
                /\ reply' = NoopReply
                /\ UNCHANGED <<pending, putLog>>
           ELSE /\ spc' = "putting"
                /\ pending' = chans
                /\ putLog' = {keytag(ch.iouKey, ch.tag) : ch \in chans}
                /\ UNCHANGED reply

\* The code after the retry loop up to `await Promise.all`: the filters, the
\* no-op return, and one putL1 call per channel to sync.
AfterLoop(subs) ==
  LET opened == OpenedChannels(subs, ProviderKeyHash)
      chans == ChannelsForSync(opened)
  IN IF opened = {}
       THEN /\ spc' = "done"
            /\ reply' = NoopReply
            /\ UNCHANGED <<pending, putLog>>
       ELSE /\ spc' = "putting"
            /\ pending' = chans
            /\ putLog' = {keytag(ch.iouKey, ch.tag) : ch \in chans}
            /\ UNCHANGED reply

GetStatesReturnNoBreak(snap) ==
  /\ spc = "fetching"
  /\ subbits' = snap
  /\ reads' = Append(reads, snap)
  /\ IF attempt < maxAttempts
       THEN /\ spc' = "delaying"
            /\ delays' = delays + 1
            /\ UNCHANGED <<pending, putLog, reply>>
       ELSE /\ AfterLoop(snap)
            /\ UNCHANGED delays
  /\ UNCHANGED <<reqProvider, cfgProvider, cfgDryRun, attempt, syncResult, store, store0>>

\* getStates answers: one pass of the loop body after the await.
GetStatesReturnRetryUnlessOpened(snap) ==
  /\ spc = "fetching"
  /\ subbits' = snap
  /\ reads' = Append(reads, snap)
  /\ IF OpenedChannels(snap, ProviderKeyHash) # {}
       THEN /\ AfterLoop(snap)
            /\ UNCHANGED delays
       ELSE IF attempt < maxAttempts
         THEN /\ spc' = "delaying"
              /\ delays' = delays + 1
              /\ UNCHANGED <<pending, putLog, reply>>
         ELSE /\ AfterLoop(snap)
              /\ UNCHANGED delays
  /\ UNCHANGED <<reqProvider, cfgProvider, cfgDryRun, attempt, syncResult, store, store0>>

GetStatesReturn(snap) ==
  /\ spc = "fetching"
  /\ subbits' = snap
  /\ reads' = Append(reads, snap)
  /\ IF snap # {}
       THEN /\ AfterLoop(snap)
            /\ UNCHANGED delays
       ELSE IF attempt < maxAttempts
         THEN /\ spc' = "delaying"
              /\ delays' = delays + 1
              /\ UNCHANGED <<pending, putLog, reply>>
         ELSE /\ AfterLoop(snap)
              /\ UNCHANGED delays
  /\ UNCHANGED <<reqProvider, cfgProvider, cfgDryRun, attempt, syncResult, store, store0>>

\* getStates rejects: the handler throws and the error handler answers.
GetStatesThrow ==
  /\ spc = "fetching"
  /\ spc' = "done"
  /\ reply' = ErrorReply
  /\ UNCHANGED <<reqProvider, cfgProvider, cfgDryRun, attempt, subbits, reads, delays,
                 pending, syncResult, store, store0, putLog>>

DelayElapsedRetryForever ==
  /\ spc = "delaying"
  /\ spc' = "fetching"
  /\ UNCHANGED <<pending, putLog, reply, attempt>>
  /\ UNCHANGED <<reqProvider, cfgProvider, cfgDryRun, subbits, reads, delays, syncResult,
                 store, store0>>

\* The setTimeout of delayMs (3000) fires: attempt++ and the next pass of
\* the loop.
DelayElapsed ==
  /\ spc = "delaying"
  /\ attempt' = attempt + 1
  /\ IF attempt + 1 <= maxAttempts
       THEN /\ spc' = "fetching"
            /\ UNCHANGED <<pending, putLog, reply>>
       ELSE AfterLoop(subbits)
  /\ UNCHANGED <<reqProvider, cfgProvider, cfgDryRun, subbits, reads, delays, syncResult,
                 store, store0>>

PutOutcomes == {"Right", "Left", "rejected"}

PutL1SettledSweep(ch, outcome) ==
  /\ spc = "putting"
  /\ ch \in pending
  /\ store' = IF outcome = "Right"
                THEN putL1EffectSweep(store, keytag(ch.iouKey, ch.tag), L1Subbit(ch))
                ELSE store
  /\ pending' = pending \ {ch}
  /\ syncResult' = syncResult \cup {<<ch.tag, outcome>>}
  /\ IF pending' = {}
       THEN /\ spc' = "done"
            /\ reply' = SyncedReply(Cardinality(putLog), syncResult')
       ELSE UNCHANGED <<spc, reply>>
  /\ UNCHANGED <<reqProvider, cfgProvider, cfgDryRun, attempt, subbits, reads,
                 delays, store0, putLog>>

PutL1SettledFailFast(ch, outcome) ==
  /\ spc = "putting"
  /\ ch \in pending
  /\ store' = IF outcome = "Right"
                THEN putL1Effect(store, keytag(ch.iouKey, ch.tag), L1Subbit(ch))
                ELSE store
  /\ IF outcome = "Right"
       THEN /\ pending' = pending \ {ch}
            /\ syncResult' = syncResult \cup {<<ch.tag, outcome>>}
            /\ IF pending' = {}
                 THEN /\ spc' = "done"
                      /\ reply' = SyncedReply(Cardinality(putLog), syncResult')
                 ELSE UNCHANGED <<spc, reply>>
       ELSE /\ pending' = {}
            /\ spc' = "done"
            /\ reply' = ErrorReply
            /\ UNCHANGED syncResult
  /\ UNCHANGED <<reqProvider, cfgProvider, cfgDryRun, attempt, subbits, reads,
                 delays, store0, putLog>>

\* One putL1 promise settles; when it is the last, Promise.all resolves and
\* the handler returns.
PutL1Settled(ch, outcome) ==
  /\ spc = "putting"
  /\ ch \in pending
  /\ store' = IF outcome = "Right"
                THEN putL1Effect(store, keytag(ch.iouKey, ch.tag), L1Subbit(ch))
                ELSE store
  /\ pending' = pending \ {ch}
  /\ syncResult' = syncResult \cup {<<ch.tag, outcome>>}
  /\ IF pending' = {}
       THEN /\ spc' = "done"
            /\ reply' = SyncedReply(
                 Cardinality(ChannelsForSync(OpenedChannels(subbits, ProviderKeyHash))),
                 syncResult')
       ELSE UNCHANGED <<spc, reply>>
  /\ UNCHANGED <<reqProvider, cfgProvider, cfgDryRun, attempt, subbits, reads, delays,
                 store0, putLog>>

\* The response is sent.
SyncRespond ==
  /\ spc = "done"
  /\ spc' = "idle"
  /\ UNCHANGED <<reqProvider, cfgProvider, cfgDryRun, attempt, subbits, reads, delays,
                 pending, syncResult, reply, store, store0, putLog>>

SyncNext ==
  \/ \E rp \in Providers \cup {NoProvider} :
        SyncRequest(rp) /\ UNCHANGED <<dvars, lvars, pvars, rvars, evars, nvars, mvars>>
  \/ \E snap \in Snapshots : GetStatesReturn(snap) /\ UNCHANGED <<dvars, lvars, pvars, rvars, evars, nvars, mvars>>
  \/ GetStatesThrow /\ UNCHANGED <<dvars, lvars, pvars, rvars, evars, nvars, mvars>>
  \/ DelayElapsed /\ UNCHANGED <<dvars, lvars, pvars, rvars, evars, nvars, mvars>>
  \/ \E ch \in pending, outcome \in PutOutcomes :
        PutL1Settled(ch, outcome) /\ UNCHANGED <<dvars, lvars, pvars, rvars, evars, nvars, mvars>>
  \/ SyncRespond /\ UNCHANGED <<dvars, lvars, pvars, rvars, evars, nvars, mvars>>

(***************************************************************************)
(* l1Routes.js: POST /l1/process-closed-channels (the settlement           *)
(* processor) and POST /l1/process-ious (the claim processor)              *)
(***************************************************************************)
MaxPending == 1    \* SpecProc: a request starts with fewer detached confirmations outstanding

\* The iouAmt of a stored IOU: zero, a positive numeral, no numeral, absent.
ProcAmts == {<<"0">>, <<"1">>, <<"a">>, Undefined}
ProcSigs == {<<>>, <<"a", "b">>}
\* What txId / outputIdx of an IOU point at: nothing, or the utxo of the
\* channel with this tag.
NoRef == "missing"
Refs == {NoRef} \cup Tags
\* Keys of the IOU store: an iouKey followed by a tag.
IouKeytags == {keytag(IouKeyOf(a), b) : a, b \in Tags}
IouEntries(kts, refs) ==
  [keytag : kts, iouAmt : ProcAmts, sig : ProcSigs, ref : refs]
\* Object.entries(ious): the keys are distinct
IouLists(kts, refs) ==
  {<<>>} \cup {<<e>> : e \in IouEntries(kts, refs)}
    \cup {p \in IouEntries(kts, refs) \X IouEntries(kts, refs) :
            p[1].keytag # p[2].keytag}
\* process-closed-channels never reads txId / outputIdx
SettleIous == IouLists(IouKeytags, {NoRef})
SubIous ==
  {io \in IouLists(Keytags, Refs) : \A i \in 1..Len(io) : io[i].iouAmt # Undefined}
\* process-closed-channels never reads subbed
ChainSnapshots == {snap \in Snapshots : \A s \in snap : s.state.subbed = 0}
\* process-ious never reads constants.provider
UtxoSnapshots == {snap \in Snapshots : \A s \in snap : s.state.provider = "P1"}

Success(key, txHash) ==
  [key |-> key, success |-> TRUE, error |-> "", txHash |-> txHash]
Failure(key, error) ==
  [key |-> key, success |-> FALSE, error |-> error, txHash |-> 0]
Job(key, subbit, iouAmount, iouSignature) ==
  [key |-> key, subbit |-> subbit, iouAmount |-> iouAmount,
   iouSignature |-> iouSignature]
NoJob == [none |-> TRUE]

\* closedChannels
ClosedChannels(subs) ==
  {s \in subs : s.state.kind = "Closed" /\ s.state.provider = cfgProvider}

\* Object.entries(ious).find(([keytagHex]) => keytagHex.slice(64) === tag)
FindIou(io, tagHex) ==
  LET hits == {i \in 1..Len(io) : io[i].keytag[2] = tagHex}
  IN IF hits = {} THEN NoIou
     ELSE io[CHOOSE i \in hits : \A j \in hits : i <= j]

\* One pass of the loop over closedChannels
SettleOutcomeAnySigned(s, io) ==
  LET e == FindIou(io, s.tag) IN
  IF e = NoIou THEN "noIou"
  ELSE IF ~BigIntOf(e.iouAmt).ok THEN "throw"
  ELSE IF Falsy(e.sig) THEN "notClaimable"
  ELSE "job"

SettleOutcome(s, io) ==
  LET e == FindIou(io, s.tag) IN
  IF e = NoIou THEN "noIou"
  ELSE IF ~BigIntOf(e.iouAmt).ok THEN "throw"
  ELSE IF BigIntOf(e.iouAmt).val <= 0 \/ Falsy(e.sig) THEN "notClaimable"
  ELSE "job"

\* allUtxos.find(...) followed by utxo2Subbit
UtxoOf(utxos, ref) == {s \in utxos : s.tag = ref}

\* One pass of the loop over Object.entries(ious)
SubOutcomeNotBelow(e, utxos) ==
  IF e.ref = NoRef THEN "noRef"
  ELSE IF UtxoOf(utxos, e.ref) = {} THEN "notFound"
  ELSE LET subbit == CHOOSE s \in UtxoOf(utxos, e.ref) : TRUE IN
       IF subbit.state.kind # "Opened" THEN "notOpened"
       ELSE IF ~BigIntOf(e.iouAmt).ok THEN "throw"
       ELSE IF BigIntOf(e.iouAmt).val < subbit.state.subbed THEN "skip"
       ELSE IF Falsy(e.sig) THEN "noSig"
       ELSE "job"

SubOutcome(e, utxos) ==
  IF e.ref = NoRef THEN "noRef"
  ELSE IF UtxoOf(utxos, e.ref) = {} THEN "notFound"
  ELSE LET subbit == CHOOSE s \in UtxoOf(utxos, e.ref) : TRUE IN
       IF subbit.state.kind # "Opened" THEN "notOpened"
       ELSE IF ~BigIntOf(e.iouAmt).ok THEN "throw"
       ELSE IF BigIntOf(e.iouAmt).val <= subbit.state.subbed THEN "skip"
       ELSE IF Falsy(e.sig) THEN "noSig"
       ELSE "job"

ErrorOf(outcome) ==
  CASE outcome = "noIou" -> "No IOU found"
    [] outcome = "notClaimable" -> "No claimable IOU amount"
    [] outcome = "noRef" -> "Missing UTXO reference"
    [] outcome = "notFound" -> "UTXO not found"
    [] outcome = "notOpened" -> "Channel is not in Opened state"
    [] outcome = "noSig" -> "Missing IOU signature"
    [] OTHER -> ""
FailureOutcomes ==
  {"noIou", "notClaimable", "noRef", "notFound", "notOpened", "noSig"}

\* The loops, taken as a whole: does BigInt throw, which failures are pushed
\* to results, which jobs are collected.
SettleThrows(closed, io) == \E s \in closed : SettleOutcome(s, io) = "throw"
SettleFailuresSilent(closed, io) == {}

SettleFailures(closed, io) ==
  {Failure(s.tag, ErrorOf(SettleOutcome(s, io))) :
     s \in {x \in closed : SettleOutcome(x, io) \in FailureOutcomes}}
SettleJobs(closed, io) ==
  {Job(s.tag, s, BigIntOf(FindIou(io, s.tag).iouAmt).val, FindIou(io, s.tag).sig) :
     s \in {x \in closed : SettleOutcome(x, io) = "job"}}

Entries(io) == {io[i] : i \in 1..Len(io)}
SubThrows(io, utxos) == \E e \in Entries(io) : SubOutcome(e, utxos) = "throw"
SubFailures(io, utxos) ==
  {Failure(e.keytag, ErrorOf(SubOutcome(e, utxos))) :
     e \in {x \in Entries(io) : SubOutcome(x, utxos) \in FailureOutcomes}}
SubJobs(io, utxos) ==
  {Job(e.keytag, CHOOSE s \in UtxoOf(utxos, e.ref) : TRUE,
       BigIntOf(e.iouAmt).val, e.sig) :
     e \in {x \in Entries(io) : SubOutcome(x, utxos) = "job"}}

ProcBadRequestReply ==
  [statusCode |-> 400, message |-> "No provider key hash configured"]
ZeroReply == [processed |-> 0, successful |-> 0, failed |-> 0]
\* the return when no job was collected (subJobs / settleJobs is empty)
NoJobsReply(res) ==
  [processed |-> Cardinality(res),
   successful |-> 0,
   failed |-> IF pProc = "subs" THEN Cardinality({r \in res : ~r.success})
              ELSE Cardinality(res),
   results |-> res]
\* the return after the submissions
ProcReplyAllFailed(res) ==
  [processed |-> Cardinality(res),
   successful |-> Cardinality({r \in res : r.success}),
   failed |-> Cardinality(res),
   results |-> res]

ProcReply(res) ==
  [processed |-> Cardinality(res),
   successful |-> Cardinality({r \in res : r.success}),
   failed |-> Cardinality(res) - Cardinality({r \in res : r.success}),
   results |-> res]

\* One try block: the steps or the job it is about, and how far it got.
Submit(members, mode, status) ==
  [members |-> members, mode |-> mode, status |-> status]
SetStatus(subm, status) ==
  [subm EXCEPT ![Len(subm)] = [@ EXCEPT !.status = status]]

ProcIdle ==
  /\ ppc = "idle"
  /\ pProc = "none"
  /\ validatorRef = FALSE
  /\ cfgThreshold = 0
  /\ chain = {}
  /\ ious = <<>>
  /\ jobs = {}
  /\ remaining = {}
  /\ current = NoJob
  /\ pResults = {}
  /\ submits = <<>>
  /\ detached = 0
  /\ pReply = NoReply

ProcInit ==
  /\ ppc = "idle"
  /\ pProc = "none"
  /\ validatorRef \in BOOLEAN
  /\ cfgThreshold \in {0, MaxThr}
  /\ chain = {}
  /\ ious = <<>>
  /\ jobs = {}
  /\ remaining = {}
  /\ current = NoJob
  /\ pResults = {}
  /\ submits = <<>>
  /\ detached = 0
  /\ pReply = NoReply

\* A request arrives: the code up to the first await.
ProcRequest(proc) ==
  /\ ppc = "idle"
  /\ pProc' = proc
  /\ IF proc = "settle"
       THEN IF cfgProvider = NoProvider
              THEN ppc' = "done" /\ pReply' = ProcBadRequestReply
              ELSE ppc' = "getStates" /\ pReply' = NoReply
       ELSE ppc' = "getIous" /\ pReply' = NoReply
  /\ UNCHANGED <<validatorRef, cfgThreshold, chain, ious, jobs, remaining, current, pResults,
                 submits, detached>>

\* The handler returns with these results.  process-ious first injects
\* POST /l1/sync-from-chain when a result is a success.
ProcFinish(res) ==
  /\ pResults' = res
  /\ IF pProc = "subs" /\ \E r \in res : r.success
       THEN ppc' = "postSync" /\ pReply' = NoReply
       ELSE ppc' = "done" /\ pReply' = ProcReply(res)

\* The fallback loop enters the try block of job j.
StartJob(j, rest, subm) ==
  /\ ppc' = "single"
  /\ current' = j
  /\ remaining' = rest
  /\ submits' = Append(subm, Submit({j}, "single", "started"))
  /\ UNCHANGED pReply

AfterGateFallbackWithRef(throws, failures, js) ==
  IF throws
    THEN /\ ppc' = "done" /\ pReply' = ErrorReply
         /\ UNCHANGED <<jobs, remaining, current, pResults, submits>>
  ELSE IF js = {}
    THEN /\ ppc' = "done" /\ pReply' = NoJobsReply(failures)
         /\ pResults' = failures
         /\ UNCHANGED <<jobs, remaining, current, submits>>
  ELSE /\ jobs' = js
       /\ pResults' = failures
       /\ \E j \in js : StartJob(j, js \ {j}, submits)

\* The code after the loop that collects the jobs, up to the next await:
\* the return when there is no job, else the batch try block or the first
\* iteration of the fallback loop.
AfterGate(throws, failures, js) ==
  IF throws
    THEN /\ ppc' = "done" /\ pReply' = ErrorReply
         /\ UNCHANGED <<jobs, remaining, current, pResults, submits>>
  ELSE IF js = {}
    THEN /\ ppc' = "done" /\ pReply' = NoJobsReply(failures)
         /\ pResults' = failures
         /\ UNCHANGED <<jobs, remaining, current, submits>>
  ELSE /\ jobs' = js
       /\ pResults' = failures
       /\ IF validatorRef
            THEN /\ ppc' = "batch"
                 /\ submits' = Append(submits, Submit(js, "batch", "started"))
                 /\ UNCHANGED <<remaining, current, pReply>>
            ELSE \E j \in js : StartJob(j, js \ {j}, submits)

\* process-closed-channels: getStates answers.
GetStatesAnswer(snap) ==
  /\ ppc = "getStates"
  /\ chain' = snap
  /\ IF ClosedChannels(snap) = {}
       THEN ppc' = "done" /\ pReply' = ZeroReply
       ELSE ppc' = "getIous" /\ UNCHANGED pReply
  /\ UNCHANGED <<pProc, validatorRef, cfgThreshold, ious, jobs, remaining, current, pResults,
                 submits, detached>>

\* getIous answers.
GetIousAnswer(io) ==
  /\ ppc = "getIous"
  /\ ious' = io
  /\ IF pProc = "settle"
       THEN /\ io \in SettleIous
            /\ AfterGate(SettleThrows(ClosedChannels(chain), io),
                         SettleFailures(ClosedChannels(chain), io),
                         SettleJobs(ClosedChannels(chain), io))
       ELSE /\ io \in SubIous
            /\ IF Len(io) = 0
                 THEN ppc' = "done" /\ pReply' = ZeroReply
                 ELSE ppc' = "utxosAt" /\ UNCHANGED pReply
            /\ UNCHANGED <<jobs, remaining, current, pResults, submits>>
  /\ UNCHANGED <<pProc, validatorRef, cfgThreshold, chain, detached>>

\* process-ious: utxosAt answers.
UtxosAtAnswer(snap) ==
  /\ ppc = "utxosAt"
  /\ chain' = snap
  /\ AfterGate(SubThrows(ious, snap), SubFailures(ious, snap), SubJobs(ious, snap))
  /\ UNCHANGED <<pProc, validatorRef, cfgThreshold, ious, detached>>

\* A read rejects: the handler throws and the error handler answers.
ReadThrows ==
  /\ ppc \in {"getStates", "getIous", "utxosAt"}
  /\ ppc' = "done"
  /\ pReply' = ErrorReply
  /\ UNCHANGED <<pProc, validatorRef, cfgThreshold, chain, ious, jobs, remaining, current,
                 pResults, submits, detached>>

BatchAnswerPartialFailure(ok) ==
  /\ ppc = "batch"
  /\ IF ok
       THEN /\ detached' = detached + 1
            /\ submits' = SetStatus(submits, "accepted")
            /\ ProcFinish(pResults \cup {Success(j.key, Len(submits)) : j \in jobs})
       ELSE /\ submits' = SetStatus(submits, "failed")
            /\ \E j \in jobs :
                 ProcFinish(pResults \cup {Failure(j.key, "submit failed")}
                          \cup {Success(k.key, Len(submits)) : k \in jobs \ {j}})
            /\ UNCHANGED detached
  /\ UNCHANGED <<pProc, validatorRef, cfgThreshold, chain, ious, jobs, remaining, current>>

BatchAnswerFallThrough(ok) ==
  /\ ppc = "batch"
  /\ IF ok
       THEN /\ detached' = detached + 1
            /\ submits' = SetStatus(submits, "accepted")
            /\ ProcFinish(pResults \cup {Success(j.key, Len(submits)) : j \in jobs})
            /\ UNCHANGED <<remaining, current>>
       ELSE /\ \E j \in jobs : StartJob(j, jobs \ {j}, SetStatus(submits, "failed"))
            /\ UNCHANGED <<detached, pResults>>
  /\ UNCHANGED <<pProc, validatorRef, cfgThreshold, chain, ious, jobs>>

\* The batch try block ends: submit() gave a txHash, or one of batch.tx,
\* complete, sign, submit threw.
BatchAnswer(ok) ==
  /\ ppc = "batch"
  /\ IF ok
       THEN /\ detached' = detached + 1
            /\ submits' = SetStatus(submits, "accepted")
            /\ ProcFinish(pResults \cup {Success(j.key, Len(submits)) : j \in jobs})
       ELSE /\ submits' = SetStatus(submits, "failed")
            /\ ProcFinish(pResults \cup {Failure(j.key, "submit failed") : j \in jobs})
            /\ UNCHANGED detached
  /\ UNCHANGED <<pProc, validatorRef, cfgThreshold, chain, ious, jobs, remaining, current>>

\* The end of one iteration of the fallback loop: the next iteration or the
\* code after the loop.
NextIteration(res, subm) ==
  IF remaining = {}
    THEN /\ ProcFinish(res)
         /\ current' = NoJob
         /\ submits' = subm
         /\ UNCHANGED remaining
    ELSE /\ pResults' = res
         /\ \E j \in remaining : StartJob(j, remaining \ {j}, subm)

SingleAnswerAbortOnFailure(ok) ==
  /\ ppc = "single"
  /\ IF ok
       THEN /\ ppc' = "confirming"
            /\ submits' = SetStatus(submits, "accepted")
            /\ UNCHANGED <<remaining, current, pResults, pReply>>
       ELSE /\ ProcFinish(pResults \cup {Failure(current.key, "submit failed")})
            /\ current' = NoJob
            /\ submits' = SetStatus(submits, "failed")
            /\ UNCHANGED remaining
  /\ UNCHANGED <<pProc, validatorRef, cfgThreshold, chain, ious, jobs, detached>>

\* Fallback: submit() gave a txHash, or building, completing, signing or
\* submitting threw.
SingleAnswer(ok) ==
  /\ ppc = "single"
  /\ IF ok
       THEN /\ ppc' = "confirming"
            /\ submits' = SetStatus(submits, "accepted")
            /\ UNCHANGED <<remaining, current, pResults, pReply>>
       ELSE NextIteration(pResults \cup {Failure(current.key, "submit failed")},
                          SetStatus(submits, "failed"))
  /\ UNCHANGED <<pProc, validatorRef, cfgThreshold, chain, ious, jobs, detached>>

\* Fallback: the awaited l.awaitTx(txHash) resolves or rejects.
ConfirmAnswer(ok) ==
  /\ ppc = "confirming"
  /\ IF ok
       THEN NextIteration(pResults \cup {Success(current.key, Len(submits))},
                          SetStatus(submits, "confirmed"))
       ELSE NextIteration(pResults \cup {Failure(current.key, "confirmation failed")},
                          SetStatus(submits, "unconfirmed"))
  /\ UNCHANGED <<pProc, validatorRef, cfgThreshold, chain, ious, jobs, detached>>

\* Batch: the l.awaitTx(txHash) promise that nobody awaits settles; its
\* handlers only log.
DetachedSettlesRecorded ==
  /\ detached > 0
  /\ detached' = detached - 1
  /\ pResults' = {Failure(r.key, "confirmation failed") : r \in pResults}
  /\ UNCHANGED <<ppc, pProc, validatorRef, cfgThreshold, chain, ious, jobs, remaining, current,
                 submits, pReply>>

DetachedSettles ==
  /\ detached > 0
  /\ detached' = detached - 1
  /\ UNCHANGED <<ppc, pProc, validatorRef, cfgThreshold, chain, ious, jobs, remaining, current,
                 pResults, submits, pReply>>

\* process-ious: the injected POST /l1/sync-from-chain is answered or the
\* inject rejects (caught and logged); the handler returns.
PostSyncAnswer ==
  /\ ppc = "postSync"
  /\ ppc' = "done"
  /\ pReply' = ProcReply(pResults)
  /\ UNCHANGED <<pProc, validatorRef, cfgThreshold, chain, ious, jobs, remaining, current,
                 pResults, submits, detached>>

\* The response is sent; the locals of the request are gone.
ProcRespond ==
  /\ ppc = "done"
  /\ ppc' = "idle"
  /\ pProc' = "none"
  /\ chain' = {}
  /\ ious' = <<>>
  /\ jobs' = {}
  /\ remaining' = {}
  /\ current' = NoJob
  /\ pResults' = {}
  /\ submits' = <<>>
  /\ pReply' = NoReply
  /\ UNCHANGED <<validatorRef, cfgThreshold, detached>>

ProcNext ==
  \/ \E proc \in {"settle", "subs"} :
        detached < MaxPending /\ ProcRequest(proc) /\ UNCHANGED <<dvars, lvars, svars, rvars, evars, nvars, mvars>>
  \/ \E snap \in ChainSnapshots :
        GetStatesAnswer(snap) /\ UNCHANGED <<dvars, lvars, svars, rvars, evars, nvars, mvars>>
  \/ \E io \in SettleIous \cup SubIous :
        GetIousAnswer(io) /\ UNCHANGED <<dvars, lvars, svars, rvars, evars, nvars, mvars>>
  \/ \E snap \in UtxoSnapshots : UtxosAtAnswer(snap) /\ UNCHANGED <<dvars, lvars, svars, rvars, evars, nvars, mvars>>
  \/ ReadThrows /\ UNCHANGED <<dvars, lvars, svars, rvars, evars, nvars, mvars>>
  \/ \E ok \in BOOLEAN : BatchAnswer(ok) /\ UNCHANGED <<dvars, lvars, svars, rvars, evars, nvars, mvars>>
  \/ \E ok \in BOOLEAN : SingleAnswer(ok) /\ UNCHANGED <<dvars, lvars, svars, rvars, evars, nvars, mvars>>
  \/ \E ok \in BOOLEAN : ConfirmAnswer(ok) /\ UNCHANGED <<dvars, lvars, svars, rvars, evars, nvars, mvars>>
  \/ DetachedSettles /\ UNCHANGED <<dvars, lvars, svars, rvars, evars, nvars, mvars>>
  \/ PostSyncAnswer /\ UNCHANGED <<dvars, lvars, svars, rvars, evars, nvars, mvars>>
  \/ ProcRespond /\ UNCHANGED <<dvars, lvars, svars, rvars, evars, nvars, mvars>>

(***************************************************************************)
(* l1Routes.js: POST /l1/settle-channel                                    *)
(***************************************************************************)
SettleChannelFailure(error) == [success |-> FALSE, error |-> error]
SettleChannelSuccess(txHash, tag) == [success |-> TRUE, txHash |-> txHash, tag |-> tag]

\* What getStateByTag can give: one channel; settle-channel never reads subbed
TagStates == {[tag |-> t, state |-> st] : t \in Tags, st \in {x \in SubbitStates : x.subbed = 0}}

\* The lookup of the claim and the gate before the try block
SettleChannelOutcomeUnsigned(s, io) ==
  LET e == FindIou(io, s.tag) IN
  IF e = NoIou THEN "noIou"
  ELSE IF ~BigIntOf(e.iouAmt).ok THEN "throw"
  ELSE IF BigIntOf(e.iouAmt).val <= 0 THEN "notClaimable"
  ELSE "job"

SettleChannelOutcome(s, io) ==
  LET e == FindIou(io, s.tag) IN
  IF e = NoIou THEN "noIou"
  ELSE IF ~BigIntOf(e.iouAmt).ok THEN "throw"
  ELSE IF BigIntOf(e.iouAmt).val <= 0 \/ Falsy(e.sig) THEN "notClaimable"
  ELSE "job"

\* A request arrives: the handler injects POST /l1/sync-from-chain.
SettleChannelRequest ==
  /\ ppc = "idle"
  /\ pProc' = "settleOne"
  /\ ppc' = "preSync"
  /\ UNCHANGED <<validatorRef, cfgThreshold, chain, ious, jobs, remaining, current,
                 pResults, submits, detached, pReply>>

\* The injected sync is answered or the inject rejects (caught and logged);
\* the handler reads neither the answer nor the store the sync wrote.
PreSyncAnswer ==
  /\ ppc = "preSync"
  /\ ppc' = "getStateByTag"
  /\ UNCHANGED <<pProc, validatorRef, cfgThreshold, chain, ious, jobs, remaining, current,
                 pResults, submits, detached, pReply>>

\* getStateByTag gives the channel of req.body.tag.
GetStateByTagAnswer(s) ==
  /\ ppc = "getStateByTag"
  /\ chain' = {s}
  /\ IF s.state.kind # "Closed"
       THEN ppc' = "done" /\ pReply' = SettleChannelFailure("Channel is not Closed")
       ELSE ppc' = "getIousOne" /\ UNCHANGED pReply
  /\ UNCHANGED <<pProc, validatorRef, cfgThreshold, ious, jobs, remaining, current,
                 pResults, submits, detached>>

\* getStateByTag rejects: caught, the handler returns.
GetStateByTagThrows ==
  /\ ppc = "getStateByTag"
  /\ ppc' = "done"
  /\ pReply' = SettleChannelFailure("not found on-chain")
  /\ UNCHANGED <<pProc, validatorRef, cfgThreshold, chain, ious, jobs, remaining, current,
                 pResults, submits, detached>>

\* getIous answers: the lookup, the gate and the try block up to its first
\* await.
SettleChannelIous(io) ==
  /\ ppc = "getIousOne"
  /\ ious' = io
  /\ LET s == CHOOSE x \in chain : TRUE
         outcome == SettleChannelOutcome(s, io)
         e == FindIou(io, s.tag)
     IN CASE outcome = "throw" ->
               /\ ppc' = "done" /\ pReply' = ErrorReply
               /\ UNCHANGED <<jobs, current, submits>>
          [] outcome = "noIou" ->
               /\ ppc' = "done"
               /\ pReply' = SettleChannelFailure("No IOU found for this channel")
               /\ UNCHANGED <<jobs, current, submits>>
          [] outcome = "notClaimable" ->
               /\ ppc' = "done"
               /\ pReply' = SettleChannelFailure("IOU has no claimable amount or missing signature")
               /\ UNCHANGED <<jobs, current, submits>>
          [] outcome = "job" ->
               LET j == Job(s.tag, s, BigIntOf(e.iouAmt).val, e.sig) IN
               /\ ppc' = "submitOne"
               /\ jobs' = {j}
               /\ current' = j
               /\ submits' = Append(submits, Submit({j}, "single", "started"))
               /\ UNCHANGED pReply
  /\ UNCHANGED <<pProc, validatorRef, cfgThreshold, chain, remaining, pResults, detached>>

\* getIous rejects: the handler throws and the error handler answers.
SettleChannelIousThrows ==
  /\ ppc = "getIousOne"
  /\ ppc' = "done"
  /\ pReply' = ErrorReply
  /\ UNCHANGED <<pProc, validatorRef, cfgThreshold, chain, ious, jobs, remaining, current,
                 pResults, submits, detached>>

\* The try block ends: submit() gave a txHash and l.awaitTx is left
\* detached, or building, completing, signing or submitting threw.
SettleChannelSubmit(ok) ==
  /\ ppc = "submitOne"
  /\ ppc' = "done"
  /\ IF ok
       THEN /\ detached' = detached + 1
            /\ submits' = SetStatus(submits, "accepted")
            /\ pReply' = SettleChannelSuccess(Len(submits), current.key)
       ELSE /\ submits' = SetStatus(submits, "failed")
            /\ pReply' = SettleChannelFailure("submit failed")
            /\ UNCHANGED detached
  /\ UNCHANGED <<pProc, validatorRef, cfgThreshold, chain, ious, jobs, remaining, current,
                 pResults>>

\* The three processors, one request at a time.
SettleNext ==
  \/ ProcNext
  \/ detached < MaxPending /\ SettleChannelRequest /\ UNCHANGED <<dvars, lvars, svars, rvars, evars, nvars, mvars>>
  \/ PreSyncAnswer /\ UNCHANGED <<dvars, lvars, svars, rvars, evars, nvars, mvars>>
  \/ \E s \in TagStates : GetStateByTagAnswer(s) /\ UNCHANGED <<dvars, lvars, svars, rvars, evars, nvars, mvars>>
  \/ GetStateByTagThrows /\ UNCHANGED <<dvars, lvars, svars, rvars, evars, nvars, mvars>>
  \/ \E io \in SettleIous : SettleChannelIous(io) /\ UNCHANGED <<dvars, lvars, svars, rvars, evars, nvars, mvars>>
  \/ SettleChannelIousThrows /\ UNCHANGED <<dvars, lvars, svars, rvars, evars, nvars, mvars>>
  \/ \E ok \in BOOLEAN : SettleChannelSubmit(ok) /\ UNCHANGED <<dvars, lvars, svars, rvars, evars, nvars, mvars>>

(***************************************************************************)
(* l1Routes.js: successive requests to POST /l1/process-ious against one   *)
(* chain and one IOU store                                                 *)
(***************************************************************************)
MaxRuns == 2       \* requests in a row

\* The chain a sequence of requests starts from: channels the provider has
\* Opened.  The store: claim records with a numeric amount and a reference.
RerunLedgers ==
  {snap \in UtxoSnapshots : snap # {} /\ \A s \in snap : s.state.kind = "Opened"}
RerunStores ==
  {io \in SubIous : Len(io) > 0 /\ \A i \in 1..Len(io) :
                      io[i].ref # NoRef /\ BigIntOf(io[i].iouAmt).ok}

\* The ledger once the sub steps js are on it: subbed of a channel rises to
\* the largest amount claimed for it; a step on an outdated output is void.
ApplySubs(led, js) ==
  {LET amts == {j.iouAmount : j \in {x \in js : x.subbit.tag = s.tag}} \cup {s.state.subbed}
   IN [s EXCEPT !.state.subbed = CHOOSE a \in amts : \A b \in amts : b <= a] : s \in led}

RerunRequest ==
  /\ runs < MaxRuns
  /\ ProcRequest("subs")
  /\ UNCHANGED rvars

\* getIous and utxosAt read the store and the ledger as they are.
RerunGetIous == GetIousAnswer(iouStore) /\ UNCHANGED rvars
RerunUtxosAt == UtxosAtAnswer(ledger) /\ UNCHANGED rvars

\* signedTx.submit(): an accepted transaction waits in the mempool.
RerunBatch(ok) ==
  /\ BatchAnswer(ok)
  /\ mempool' = IF ok THEN mempool \cup jobs ELSE mempool
  /\ UNCHANGED <<ledger, iouStore, runs, prev>>
RerunSingle(ok) ==
  /\ SingleAnswer(ok)
  /\ mempool' = IF ok THEN mempool \cup {current} ELSE mempool
  /\ UNCHANGED <<ledger, iouStore, runs, prev>>

\* l.awaitTx(txHash) resolves when the transaction is on the ledger.
RerunConfirm(ok) ==
  /\ ConfirmAnswer(ok)
  /\ IF ok
       THEN ledger' = ApplySubs(ledger, {current}) /\ mempool' = mempool \ {current}
       ELSE UNCHANGED <<ledger, mempool>>
  /\ UNCHANGED <<iouStore, runs, prev>>

\* The chain takes up the waiting transactions.
TxLands ==
  /\ mempool # {}
  /\ ledger' = ApplySubs(ledger, mempool)
  /\ mempool' = {}
  /\ UNCHANGED <<iouStore, runs, prev>>
  /\ UNCHANGED pvars

RerunRespond ==
  /\ ProcRespond
  /\ runs' = runs + 1
  /\ prev' = pReply
  /\ UNCHANGED <<ledger, iouStore, mempool>>

RerunNext ==
  \/ RerunRequest /\ UNCHANGED <<dvars, lvars, svars, evars, nvars, mvars>>
  \/ RerunGetIous /\ UNCHANGED <<dvars, lvars, svars, evars, nvars, mvars>>
  \/ RerunUtxosAt /\ UNCHANGED <<dvars, lvars, svars, evars, nvars, mvars>>
  \/ ReadThrows /\ UNCHANGED <<dvars, lvars, svars, rvars, evars, nvars, mvars>>
  \/ \E ok \in BOOLEAN : RerunBatch(ok) /\ UNCHANGED <<dvars, lvars, svars, evars, nvars, mvars>>
  \/ \E ok \in BOOLEAN : RerunSingle(ok) /\ UNCHANGED <<dvars, lvars, svars, evars, nvars, mvars>>
  \/ \E ok \in BOOLEAN : RerunConfirm(ok) /\ UNCHANGED <<dvars, lvars, svars, evars, nvars, mvars>>
  \/ TxLands /\ UNCHANGED <<dvars, lvars, svars, evars, nvars, mvars>>
  \/ DetachedSettles /\ UNCHANGED <<dvars, lvars, svars, rvars, evars, nvars, mvars>>
  \/ PostSyncAnswer /\ UNCHANGED <<dvars, lvars, svars, rvars, evars, nvars, mvars>>
  \/ RerunRespond /\ UNCHANGED <<dvars, lvars, svars, evars, nvars, mvars>>

(***************************************************************************)
(* errors.js: isNetworkError, parseLucidError                              *)
(* A text is a sequence of words; the blank that joins two texts is the    *)
(* boundary between their words.                                           *)
(***************************************************************************)
MaxWords == 2      \* longest error.message drawn, in words

Words ==
  {"ECONNREFUSED", "ETIMEDOUT", "ENOTFOUND", "fetch", "failed", "rate", "limit", "429",
   "Blockfrost", "502", "not have enough funds", "collateral", "minimum ADA", "minAda",
   "EMPTY_UTXO", "No UTxO", "x"}
Texts == UNION {[1..n -> Words] : n \in 0..MaxWords}
Messages == Texts \cup {Undefined}
Causes == {<<w>> : w \in Words} \cup {Undefined}

\* String(v ?? "")
StringOf(v) == IF v = Undefined THEN <<>> ELSE v
\* text.includes(pattern)
includes(text, pattern) ==
  \E i \in 0..(Len(text) - Len(pattern)) : SubSeq(text, i + 1, i + Len(pattern)) = pattern

NETWORK_PATTERNS ==
  {<<"ECONNREFUSED">>, <<"ETIMEDOUT">>, <<"ENOTFOUND">>, <<"fetch", "failed">>,
   <<"rate", "limit">>, <<"429">>}
\* the words that match 5\d{2}
FiveXX == {"502"}
\* BLOCKFROST_5XX.test(text)
BLOCKFROST_5XX(text) ==
  \E i, j \in 1..Len(text) : i # j /\ text[i] = "Blockfrost" /\ text[j] \in FiveXX

isNetworkErrorMessageOnly(error) ==
  LET msg == StringOf(error.message)
  IN \/ \E p \in NETWORK_PATTERNS : includes(msg, p)
     \/ BLOCKFROST_5XX(msg)

isNetworkError(error) ==
  LET msg == StringOf(error.message)
      cause == StringOf(error.cause)
      combined == msg \o cause
  IN \/ \E p \in NETWORK_PATTERNS : includes(combined, p)
     \/ BLOCKFROST_5XX(combined)

parseLucidError(error) ==
  LET msg == StringOf(error.message) IN
  IF includes(msg, <<"not have enough funds">>) /\ includes(msg, <<"collateral">>)
    THEN [statusCode |-> 400, message |-> "not enough ADA for collateral"]
  ELSE IF includes(msg, <<"not have enough funds">>)
    THEN [statusCode |-> 400, message |-> "not enough ADA"]
  ELSE IF includes(msg, <<"minimum ADA">>) \/ includes(msg, <<"minAda">>)
    THEN [statusCode |-> 400, message |-> "not enough ADA for the minimum change output"]
  ELSE IF includes(msg, <<"EMPTY_UTXO">>) \/ includes(msg, <<"No UTxO">>)
    THEN [statusCode |-> 400, message |-> "no UTxOs available"]
  ELSE IF isNetworkError(error)
    THEN [statusCode |-> 503, message |-> "unable to reach the Cardano network"]
  ELSE IF BLOCKFROST_5XX(msg)
    THEN [statusCode |-> 503, message |-> "indexer temporarily unavailable"]
  ELSE [statusCode |-> 500, message |-> "transaction could not be built"]

ErrorsInit ==
  /\ eMsg \in Messages
  /\ eCause \in Causes
  /\ eOut = NoReply

CallParseLucidError ==
  /\ eOut = NoReply
  /\ eOut' = parseLucidError([message |-> eMsg, cause |-> eCause])
  /\ UNCHANGED <<eMsg, eCause>>

ErrorsNext ==
  CallParseLucidError /\ UNCHANGED <<dvars, lvars, svars, pvars, rvars, nvars, mvars>>

(***************************************************************************)
(* decisions.js on amounts of any magnitude                                *)
(* A bigint that is not negative is the sequence of its decimal digits,    *)
(* most significant first, without leading zeros.                          *)
(***************************************************************************)
RECURSIVE Strip(_)
Strip(d) == IF Len(d) > 1 /\ d[1] = 0 THEN Strip(Tail(d)) ELSE d
Pad(d, n) == [i \in 1..n |-> IF i <= n - Len(d) THEN 0 ELSE d[i - (n - Len(d))]]

\* Number(string) keeps 53 bits: past sixteen digits an odd numeral is not
\* representable.
BigIntAsNumber(s) ==
  LET d == IF s = <<>> THEN <<0>> ELSE Strip([i \in 1..Len(s) |-> DigitVal(s[i])])
  IN IF Len(d) >= 16 /\ d[Len(d)] % 2 = 1 THEN [d EXCEPT ![Len(d)] = @ - 1] ELSE d

\* BigInt(string) of "" or of an unsigned decimal numeral
BigIntExact(s) ==
  IF s = <<>> THEN <<0>> ELSE Strip([i \in 1..Len(s) |-> DigitVal(s[i])])

\* String(bigint)
NumeralOf(d) == [i \in 1..Len(d) |-> DigitSeq[d[i] + 1]]

\* x + y
RECURSIVE CarryInto(_, _, _)
CarryInto(a, b, i) ==
  IF i = Len(a) THEN 0 ELSE (a[i + 1] + b[i + 1] + CarryInto(a, b, i + 1)) \div 10
BigAdd(x, y) ==
  LET n == (IF Len(x) > Len(y) THEN Len(x) ELSE Len(y)) + 1
      a == Pad(x, n)
      b == Pad(y, n)
  IN Strip([i \in 1..n |-> (a[i] + b[i] + CarryInto(a, b, i)) % 10])

\* x <= y
BigLe(x, y) ==
  \/ Len(x) < Len(y)
  \/ /\ Len(x) = Len(y)
     /\ \/ x = y
        \/ \E i \in 1..Len(x) : x[i] < y[i] /\ \A j \in 1..(i - 1) : x[j] = y[j]

shouldSettleExact(channelStateKind, iouData) ==
  IF channelStateKind # "Closed" THEN Returned(FALSE)
  ELSE IF iouData = NoIou THEN Returned(FALSE)
  ELSE IF BigLe(BigIntExact(OrZero(iouData.iouAmt)), <<0>>) THEN Returned(FALSE)
  ELSE IF Falsy(iouData.sig) THEN Returned(FALSE)
  ELSE Returned(TRUE)

shouldSubExact(iouData, currentSub, threshold) ==
  IF iouData = NoIou THEN Returned(FALSE)
  ELSE IF Falsy(iouData.sig) THEN Returned(FALSE)
  ELSE IF BigLe(BigIntExact(OrZero(iouData.iouAmt)), BigAdd(currentSub, threshold))
    THEN Returned(FALSE)
  ELSE Returned(TRUE)

\* The amounts drawn, in runs of consecutive integers: 0..2, 2^53 - 1 ..
\* 2^53 + 2, 10^16 - 2 .. 10^16 + 1.
SmallRun == << <<0>>, <<1>>, <<2>> >>
P53Run ==
  << <<9,0,0,7,1,9,9,2,5,4,7,4,0,9,9,1>>, <<9,0,0,7,1,9,9,2,5,4,7,4,0,9,9,2>>,
     <<9,0,0,7,1,9,9,2,5,4,7,4,0,9,9,3>>, <<9,0,0,7,1,9,9,2,5,4,7,4,0,9,9,4>> >>
CarryRun ==
  << <<9,9,9,9,9,9,9,9,9,9,9,9,9,9,9,8>>, <<9,9,9,9,9,9,9,9,9,9,9,9,9,9,9,9>>,
     <<1,0,0,0,0,0,0,0,0,0,0,0,0,0,0,0,0>>, <<1,0,0,0,0,0,0,0,0,0,0,0,0,0,0,0,1>> >>
Runs == <<SmallRun, P53Run, CarryRun>>
RunSet(run) == {run[o] : o \in 1..Len(run)}
BigAmounts == UNION {RunSet(Runs[r]) : r \in 1..Len(Runs)}
ExactIous ==
  {NoIou} \cup [iouAmt : {NumeralOf(d) : d \in BigAmounts}, sig : {<<>>, <<"a", "b">>}]

ExactInit ==
  /\ nFn = "none"
  /\ nIou \in ExactIous
  /\ nSub \in BigAmounts
  /\ nThr \in RunSet(SmallRun)
  /\ nOut = Returned(FALSE)

CallShouldSettleExact ==
  /\ nFn = "none"
  /\ nFn' = "shouldSettle"
  /\ nOut' = shouldSettleExact("Closed", nIou)
  /\ UNCHANGED <<nIou, nSub, nThr>>

CallShouldSubExact ==
  /\ nFn = "none"
  /\ nFn' = "shouldSub"
  /\ nOut' = shouldSubExact(nIou, nSub, nThr)
  /\ UNCHANGED <<nIou, nSub, nThr>>

ExactNext ==
  \/ CallShouldSettleExact /\ UNCHANGED <<dvars, lvars, svars, pvars, rvars, evars, mvars>>
  \/ CallShouldSubExact /\ UNCHANGED <<dvars, lvars, svars, pvars, rvars, evars, mvars>>

(***************************************************************************)
(* liaison.js with the handler of POST /l1/sync-from-chain behind the      *)
(* first injected request                                                  *)
(***************************************************************************)
\* The scheduled task and one request to POST /l1/liaison-run
CycleCallers == {"scheduled", "manualA"}
\* What getStates gives here: nothing, or the provider's Opened channel t1
CycleSnapshots ==
  {{}, {[tag |-> "t1", state |-> [kind |-> "Opened", provider |-> "P1", subbed |-> 0]]}}

CycleEnter(c) == Enter(c) /\ UNCHANGED <<dvars, svars, pvars, rvars, evars, nvars, mvars>>

\* The injected POST /l1/sync-from-chain (payload {}) reaches its handler.
SyncArrives ==
  /\ \E c \in Callers : pc[c] = "sync" /\ "sync" \in inflight[c]
  /\ SyncRequest(NoProvider)
  /\ UNCHANGED <<dvars, lvars, pvars, rvars, evars, nvars, mvars>>

\* The remote read returns or raises.
GetStatesAnswered ==
  /\ \/ \E snap \in CycleSnapshots : GetStatesReturn(snap)
     \/ GetStatesThrow
  /\ UNCHANGED <<dvars, lvars, pvars, rvars, evars, nvars, mvars>>

CycleDelayElapsed == DelayElapsed /\ UNCHANGED <<dvars, lvars, pvars, rvars, evars, nvars, mvars>>

PutAnswered ==
  /\ \E ch \in pending, outcome \in PutOutcomes : PutL1Settled(ch, outcome)
  /\ UNCHANGED <<dvars, lvars, pvars, rvars, evars, nvars, mvars>>

\* The handler's response is the payload of the first step: its own return
\* value, or the body the error handler wrote.
SyncAnswered(c) ==
  /\ pc[c] = "sync"
  /\ SyncRespond
  /\ StepReplied(c, IF "statusCode" \in DOMAIN reply THEN "errorBody" ELSE "body")
  /\ UNCHANGED <<dvars, pvars, rvars, evars, nvars, mvars>>

\* The second or third injected request is answered, or it rejects.
StepAnswered(c) ==
  /\ pc[c] # "sync"
  /\ \/ \E payload \in Payloads : StepReplied(c, payload)
     \/ StepThrew(c)
  /\ UNCHANGED <<dvars, svars, pvars, rvars, evars, nvars, mvars>>

CycleRespond(c) == Respond(c) /\ UNCHANGED <<dvars, svars, pvars, rvars, evars, nvars, mvars>>
CycleTick == Tick /\ UNCHANGED <<dvars, svars, pvars, rvars, evars, nvars, mvars>>

CycleNext ==
  \/ \E c \in CycleCallers : CycleEnter(c)
  \/ SyncArrives
  \/ GetStatesAnswered
  \/ CycleDelayElapsed
  \/ PutAnswered
  \/ \E c \in CycleCallers : SyncAnswered(c)
  \/ \E c \in CycleCallers : StepAnswered(c)
  \/ \E c \in CycleCallers : CycleRespond(c)
  \/ CycleTick

\* Every remote call eventually returns or raises, every timer fires, every
\* injected request is delivered and answered.
CycleFairness ==
  /\ WF_vars(SyncArrives)
  /\ WF_vars(GetStatesAnswered)
  /\ WF_vars(CycleDelayElapsed)
  /\ WF_vars(PutAnswered)
  /\ \A c \in CycleCallers : WF_vars(SyncAnswered(c))
  /\ \A c \in CycleCallers : WF_vars(StepAnswered(c))

(***************************************************************************)
(* The lookup of the claim record of a Closed channel in                   *)
(* POST /l1/process-closed-channels and POST /l1/settle-channel, on hex    *)
(* strings as sequences of characters.                                     *)
(***************************************************************************)
MaxRecords == 2
\* iouKey is a 32-byte verification key: 64 hex characters.  The second key
\* ends in the characters of a tag.
HexKeys ==
  {[i \in 1..64 |-> "a"],
   [i \in 1..64 |-> IF i = 64 THEN "1" ELSE "0"]}
\* tags are byte strings of any length; one is the tail of another
HexTags == {<<"0", "1">>, <<"0", "2">>, <<"0", "2", "0", "1">>, <<"0", "1", "0", "1">>}
\* the hex of keys.keytag(iouKey, tag): the key followed by the tag
keytagHexOf(iouKey, tag) == iouKey \o tag
\* String.prototype.slice(n)
slice(s, n) == SubSeq(s, n + 1, Len(s))
\* String.prototype.endsWith
MatchesTail(keytagHex, tagHex) ==
  /\ Len(keytagHex) >= Len(tagHex)
  /\ SubSeq(keytagHex, Len(keytagHex) - Len(tagHex) + 1, Len(keytagHex)) = tagHex
\* ([keytagHex]) => keytagHex.slice(64) === tagHex
Matches(keytagHex, tagHex) == slice(keytagHex, 64) = tagHex

\* Object.entries(ious).find(...)
findIouEntry(entries, tagHex) ==
  LET hits == {i \in 1..Len(entries) : Matches(entries[i].keytagHex, tagHex)}
  IN IF hits = {} THEN NoIou
     ELSE entries[CHOOSE i \in hits : \A j \in hits : i <= j]

\* The records of the store: each was written under the keytag of the
\* channel (iouKey, tag) it belongs to; the keys of the store are distinct.
StoredRecords ==
  {[keytagHex |-> keytagHexOf(k, t), iouKey |-> k, tag |-> t] :
     k \in HexKeys, t \in HexTags}
RECURSIVE RecordLists(_)
RecordLists(n) ==
  IF n = 0 THEN {<<>>}
  ELSE LET shorter == RecordLists(n - 1) IN
       shorter \cup
         {Append(l, r) : <<l, r>> \in
            {x \in shorter \X StoredRecords :
               /\ Len(x[1]) = n - 1
               /\ \A i \in 1..Len(x[1]) : x[1][i].keytagHex # x[2].keytagHex}}

MatchInit ==
  /\ mFn = "none" /\ mIous \in RecordLists(MaxRecords) /\ mTag = <<>> /\ mOut = NoIou

\* process-closed-channels looks up the record of a Closed channel
LookUpClosedChannel(tagHex) ==
  /\ mFn = "none"
  /\ mFn' = "process-closed-channels"
  /\ mTag' = tagHex
  /\ mOut' = findIouEntry(mIous, tagHex)
  /\ UNCHANGED mIous

\* settle-channel looks up the record of the channel of the request
LookUpSettleChannel(tagHex) ==
  /\ mFn = "none"
  /\ mFn' = "settle-channel"
  /\ mTag' = tagHex
  /\ mOut' = findIouEntry(mIous, tagHex)
  /\ UNCHANGED mIous

MatchNext ==
  \/ \E t \in HexTags :
       LookUpClosedChannel(t) /\ UNCHANGED <<dvars, lvars, svars, pvars, rvars, evars, nvars>>
  \/ \E t \in HexTags :
       LookUpSettleChannel(t) /\ UNCHANGED <<dvars, lvars, svars, pvars, rvars, evars, nvars>>

(***************************************************************************)
(* Settlement requests one after the other against one chain and one       *)
(* store: POST /l1/process-closed-channels (the settle step of a liaison   *)
(* cycle, or a direct request) and POST /l1/settle-channel.  A handler     *)
(* that submitted in batch mode, and the handler of settle-channel, return *)
(* while the transaction waits for the chain.                              *)
(***************************************************************************)
\* The chain: channels of the provider, at least one of them Closed.  The
\* store: claim records with a numeral amount.
ResettleLedgers ==
  {snap \in ChainSnapshots :
     /\ \E s \in snap : s.state.kind = "Closed"
     /\ \A s \in snap : s.state.provider = "P1"}
ResettleStores ==
  {io \in SettleIous : Len(io) > 0 /\ \A i \in 1..Len(io) : BigIntOf(io[i].iouAmt).ok}

\* The ledger once the settle steps js are on it: their outputs are spent.
ApplySettles(led, js) == led \ {j.subbit : j \in js}

ResettleRequest ==
  /\ runs < MaxRuns
  /\ ProcRequest("settle") \/ SettleChannelRequest
  /\ UNCHANGED rvars

\* getStates, getStateByTag and getIous read the chain and the store as
\* they are; getStateByTag rejects for a tag the chain does not have.
ResettleGetStates == GetStatesAnswer(ledger) /\ UNCHANGED rvars
ResettlePreSync == PreSyncAnswer /\ UNCHANGED rvars
ResettleGetStateByTag(tag) ==
  /\ IF \E s \in ledger : s.tag = tag
       THEN GetStateByTagAnswer(CHOOSE s \in ledger : s.tag = tag)
       ELSE GetStateByTagThrows
  /\ UNCHANGED rvars
ResettleGetIous ==
  /\ \/ pProc = "settle" /\ GetIousAnswer(iouStore)
     \/ SettleChannelIous(iouStore)
  /\ UNCHANGED rvars

\* signedTx.submit(): an accepted transaction waits in the mempool.
ResettleBatch(ok) ==
  /\ BatchAnswer(ok)
  /\ mempool' = IF ok THEN mempool \cup jobs ELSE mempool
  /\ UNCHANGED <<ledger, iouStore, runs, prev>>
ResettleSingle(ok) ==
  /\ SingleAnswer(ok)
  /\ mempool' = IF ok THEN mempool \cup {current} ELSE mempool
  /\ UNCHANGED <<ledger, iouStore, runs, prev>>
ResettleSubmitOne(ok) ==
  /\ SettleChannelSubmit(ok)
  /\ mempool' = IF ok THEN mempool \cup {current} ELSE mempool
  /\ UNCHANGED <<ledger, iouStore, runs, prev>>

\* l.awaitTx(txHash) resolves when the transaction is on the ledger.
ResettleConfirm(ok) ==
  /\ ConfirmAnswer(ok)
  /\ IF ok
       THEN ledger' = ApplySettles(ledger, {current}) /\ mempool' = mempool \ {current}
       ELSE UNCHANGED <<ledger, mempool>>
  /\ UNCHANGED <<iouStore, runs, prev>>

\* The chain takes up the waiting transactions.
SettleTxLands ==
  /\ mempool # {}
  /\ ledger' = ApplySettles(ledger, mempool)
  /\ mempool' = {}
  /\ UNCHANGED <<iouStore, runs, prev>>
  /\ UNCHANGED pvars

ResettleRespond ==
  /\ ProcRespond
  /\ runs' = runs + 1
  /\ prev' = pReply
  /\ UNCHANGED <<ledger, iouStore, mempool>>

ResettleNext ==
  \/ ResettleRequest /\ UNCHANGED <<dvars, lvars, svars, evars, nvars, mvars>>
  \/ ResettleGetStates /\ UNCHANGED <<dvars, lvars, svars, evars, nvars, mvars>>
  \/ ResettlePreSync /\ UNCHANGED <<dvars, lvars, svars, evars, nvars, mvars>>
  \/ \E tag \in Tags :
       ResettleGetStateByTag(tag) /\ UNCHANGED <<dvars, lvars, svars, evars, nvars, mvars>>
  \/ ResettleGetIous /\ UNCHANGED <<dvars, lvars, svars, evars, nvars, mvars>>
  \/ ReadThrows /\ UNCHANGED <<dvars, lvars, svars, rvars, evars, nvars, mvars>>
  \/ \E ok \in BOOLEAN : ResettleBatch(ok) /\ UNCHANGED <<dvars, lvars, svars, evars, nvars, mvars>>
  \/ \E ok \in BOOLEAN : ResettleSingle(ok) /\ UNCHANGED <<dvars, lvars, svars, evars, nvars, mvars>>
  \/ \E ok \in BOOLEAN : ResettleSubmitOne(ok) /\ UNCHANGED <<dvars, lvars, svars, evars, nvars, mvars>>
  \/ \E ok \in BOOLEAN : ResettleConfirm(ok) /\ UNCHANGED <<dvars, lvars, svars, evars, nvars, mvars>>
  \/ SettleTxLands /\ UNCHANGED <<dvars, lvars, svars, evars, nvars, mvars>>
  \/ DetachedSettles /\ UNCHANGED <<dvars, lvars, svars, rvars, evars, nvars, mvars>>
  \/ ResettleRespond /\ UNCHANGED <<dvars, lvars, svars, evars, nvars, mvars>>

(***************************************************************************)
(* POST /l1/liaison-run when the liaison plugin returned before it         *)
(* decorated runLiaisonCycle (SUBBIT_MAN_LIAISON_ENABLED is not "true",    *)
(* or lucidCtx / ENABLE_IOU_PROCESSING is missing): the handler injects    *)
(* the three requests itself.  There is no interval job.                   *)
(***************************************************************************)
ManualCallers == {"manualA", "manualB"}

\* results.<step> = { error: err.message }
CaughtSlot == "caught"

\* return { trigger: "manual-fallback", results, timestamp }
FallbackResult(res) == [trigger |-> "manual-fallback", results |-> res, timestamp |-> now]

\* A request arrives: fastify.runLiaisonCycle is undefined; const results =
\* {} and the first inject.
FallbackEnter(c) ==
  /\ pc[c] = "idle"
  /\ results' = [results EXCEPT ![c] = EmptyResults]
  /\ Inject(c, FirstStep)
  /\ UNCHANGED <<running, startTime, ret, now>>

\* The code after one try/catch statement: the next try block, or the
\* return statement after the last.
FallbackAfter(c, step, res) ==
  /\ results' = [results EXCEPT ![c] = res]
  /\ IF step = LastStep
       THEN /\ ret' = [ret EXCEPT ![c] = FallbackResult(res)]
            /\ pc' = [pc EXCEPT ![c] = "returned"]
            /\ inflight' = [inflight EXCEPT ![c] = @ \ {step}]
            /\ UNCHANGED stepLog
       ELSE /\ inflight' = [inflight EXCEPT ![c] = (@ \ {step}) \cup {StepAfter(step)}]
            /\ stepLog' = [stepLog EXCEPT ![c] = Append(@, StepAfter(step))]
            /\ pc' = [pc EXCEPT ![c] = StepAfter(step)]
            /\ UNCHANGED ret
  /\ UNCHANGED <<running, startTime, now>>

\* An injected request is answered and its payload parses.
FallbackStepReplied(c, payload) ==
  /\ pc[c] \in Steps
  /\ pc[c] \in inflight[c]
  /\ FallbackAfter(c, pc[c], [results[c] EXCEPT ![pc[c]] = payload])

FallbackStepThrewAborts(c) ==
  /\ pc[c] \in Steps
  /\ pc[c] \in inflight[c]
  /\ results' = [results EXCEPT ![c] = [@ EXCEPT ![pc[c]] = CaughtSlot]]
  /\ ret' = [ret EXCEPT ![c] = FallbackResult(results'[c])]
  /\ pc' = [pc EXCEPT ![c] = "returned"]
  /\ inflight' = [inflight EXCEPT ![c] = @ \ {pc[c]}]
  /\ UNCHANGED <<running, startTime, stepLog, now>>

\* The awaited inject rejects, or JSON.parse throws on its payload: the
\* catch of this step's own try statement fills the slot.
FallbackStepThrew(c) ==
  /\ pc[c] \in Steps
  /\ pc[c] \in inflight[c]
  /\ FallbackAfter(c, pc[c], [results[c] EXCEPT ![pc[c]] = CaughtSlot])

FallbackNext ==
  \/ \E c \in ManualCallers :
       FallbackEnter(c) /\ UNCHANGED <<dvars, svars, pvars, rvars, evars, nvars, mvars>>
  \/ \E c \in ManualCallers, payload \in Payloads :
       FallbackStepReplied(c, payload) /\ UNCHANGED <<dvars, svars, pvars, rvars, evars, nvars, mvars>>
  \/ \E c \in ManualCallers :
       FallbackStepThrew(c) /\ UNCHANGED <<dvars, svars, pvars, rvars, evars, nvars, mvars>>
  \/ \E c \in ManualCallers :
       Respond(c) /\ UNCHANGED <<dvars, svars, pvars, rvars, evars, nvars, mvars>>
  \/ Tick /\ UNCHANGED <<dvars, svars, pvars, rvars, evars, nvars, mvars>>

(***************************************************************************)
(* Specifications                                                          *)
(***************************************************************************)
\* The part of the state a specification leaves alone stays as constructed.
DecideIdle ==
  /\ dFn = "none" /\ dKind = "Opened" /\ dIou = NoIou /\ dSub = 0 /\ dThr = 0
  /\ dOut = Returned(FALSE)
RerunIdle ==
  ledger = {} /\ iouStore = <<>> /\ mempool = {} /\ runs = 0 /\ prev = NoReply
ErrorsIdle == eMsg = <<>> /\ eCause = Undefined /\ eOut = NoReply
ExactIdle ==
  nFn = "none" /\ nIou = NoIou /\ nSub = <<0>> /\ nThr = <<0>> /\ nOut = Returned(FALSE)
MatchIdle == mFn = "none" /\ mIous = <<>> /\ mTag = <<>> /\ mOut = NoIou
OthersIdle == RerunIdle /\ ErrorsIdle /\ ExactIdle /\ MatchIdle

InitDecide ==
  /\ DecideInit /\ LiaisonInit /\ SyncInit /\ cfgProvider = "P1" /\ ~cfgDryRun /\ ProcIdle
  /\ OthersIdle
SpecDecide == InitDecide /\ [][DecideNext]_vars

InitLiaison ==
  /\ DecideIdle /\ LiaisonInit /\ SyncInit /\ cfgProvider = "P1" /\ ~cfgDryRun /\ ProcIdle
  /\ OthersIdle
SpecLiaison == InitLiaison /\ [][LiaisonNext]_vars

InitSync == DecideIdle /\ LiaisonInit /\ SyncInit /\ ProcIdle /\ OthersIdle
SpecSync == InitSync /\ [][SyncNext]_vars

\* Without a provider key hash only the plain configuration is explored,
\* and a positive threshold only with the reference script and no dry-run.
InitProc ==
  /\ DecideIdle /\ LiaisonInit /\ SyncInit /\ ProcInit /\ OthersIdle
  /\ cfgProvider = NoProvider => (~validatorRef /\ ~cfgDryRun)
  /\ cfgThreshold > 0 => (cfgProvider = "P1" /\ validatorRef /\ ~cfgDryRun)
SpecProc == InitProc /\ [][ProcNext]_vars

\* The three processors with the provider key hash set, no dry-run and no
\* threshold.
InitSettle ==
  /\ DecideIdle /\ LiaisonInit /\ SyncInit /\ ProcInit /\ OthersIdle
  /\ cfgProvider = "P1" /\ ~cfgDryRun /\ cfgThreshold = 0
SpecSettle == InitSettle /\ [][SettleNext]_vars

\* Requests to process-ious one after the other, the provider key hash set,
\* no dry-run and no threshold.
InitRerun ==
  /\ DecideIdle /\ LiaisonInit /\ SyncInit /\ ProcInit /\ ErrorsIdle /\ ExactIdle
  /\ MatchIdle
  /\ cfgProvider = "P1" /\ ~cfgDryRun /\ cfgThreshold = 0
  /\ ledger \in RerunLedgers /\ iouStore \in RerunStores
  /\ mempool = {} /\ runs = 0 /\ prev = NoReply
SpecRerun == InitRerun /\ [][RerunNext]_vars

InitErrors ==
  /\ DecideIdle /\ LiaisonInit /\ SyncInit /\ cfgProvider = "P1" /\ ~cfgDryRun /\ ProcIdle
  /\ RerunIdle /\ ErrorsInit /\ ExactIdle /\ MatchIdle
SpecErrors == InitErrors /\ [][ErrorsNext]_vars

InitExact ==
  /\ DecideIdle /\ LiaisonInit /\ SyncInit /\ cfgProvider = "P1" /\ ~cfgDryRun /\ ProcIdle
  /\ RerunIdle /\ ErrorsIdle /\ ExactInit /\ MatchIdle
SpecExact == InitExact /\ [][ExactNext]_vars

InitCycle ==
  /\ DecideIdle /\ LiaisonInit /\ SyncInit /\ cfgProvider = "P1" /\ ~cfgDryRun /\ ProcIdle
  /\ OthersIdle
SpecCycle == InitCycle /\ [][CycleNext]_vars /\ CycleFairness

InitMatch ==
  /\ DecideIdle /\ LiaisonInit /\ SyncInit /\ cfgProvider = "P1" /\ ~cfgDryRun /\ ProcIdle
  /\ RerunIdle /\ ErrorsIdle /\ ExactIdle /\ MatchInit
SpecMatch == InitMatch /\ [][MatchNext]_vars

\* Settlement requests one after the other, the provider key hash set, no
\* dry-run and no threshold.
InitResettle ==
  /\ DecideIdle /\ LiaisonInit /\ SyncInit /\ ProcInit /\ ErrorsIdle /\ ExactIdle
  /\ MatchIdle
  /\ cfgProvider = "P1" /\ ~cfgDryRun /\ cfgThreshold = 0
  /\ ledger \in ResettleLedgers /\ iouStore \in ResettleStores
  /\ mempool = {} /\ runs = 0 /\ prev = NoReply
SpecResettle == InitResettle /\ [][ResettleNext]_vars

InitFallback ==
  /\ DecideIdle /\ LiaisonInit /\ SyncInit /\ cfgProvider = "P1" /\ ~cfgDryRun /\ ProcIdle
  /\ OthersIdle
SpecFallback == InitFallback /\ [][FallbackNext]_vars

(***************************************************************************)
(* Properties of the liaison cycle (SpecLiaison)                           *)
(***************************************************************************)
InCycle(c) == pc[c] \in Steps
Executed(c) == pc[c] = "returned" /\ "results" \in DOMAIN ret[c]
WasSkipped(c) == pc[c] = "returned" /\ ret[c] = SkippedResult
StepOrder == <<"sync", "settle", "subs">>
IsPrefix(s, t) == Len(s) <= Len(t) /\ \A i \in 1..Len(s) : s[i] = t[i]

\* C1: at most one cycle executes at any time, only the executing cycle has
\* requests in flight, and a call that arrives while the flag is set returns
\* the skipped result at once without issuing any of the three requests.
C1_SingleFlight ==
  /\ [](/\ Cardinality({c \in Callers : InCycle(c)}) <= 1
        /\ \A c \in Callers : inflight[c] # {} => InCycle(c)
        /\ \A c \in Callers : WasSkipped(c) => stepLog[c] = <<>>)
  /\ [][\A c \in Callers :
          (pc[c] = "idle" /\ pc'[c] # "idle" /\ (\E d \in Callers : InCycle(d)))
            => (ret'[c] = SkippedResult /\ pc'[c] = "returned"
                /\ stepLog'[c] = <<>> /\ inflight'[c] = {})]_vars

\* C1 witness: a manual call was skipped while the scheduled cycle executes.
C1_Witness ==
  /\ InCycle("scheduled")
  /\ WasSkipped("manualA")

\* C2: the flag is set exactly while some call is between its first request
\* and its return; once a cycle has ended, with or without an error, the flag
\* is clear, so the next call is not skipped.
C2_IdleAfterCycle ==
  running <=> (\E c \in Callers : InCycle(c))

\* C2 witness: a cycle ended with an error and a later call executes steps.
C2_Witness ==
  \E c, d \in Callers :
    /\ Executed(c) /\ ret[c].results.error # "unset"
    /\ InCycle(d)

\* C3: a cycle issues its requests in the order sync, settle, subs; a
\* request is issued only after the previous one was answered, and at most
\* one request of a cycle is in flight.
C3_StepsInOrder ==
  \A c \in Callers :
    /\ IsPrefix(stepLog[c], StepOrder)
    /\ Cardinality(inflight[c]) <= 1
    /\ \A i \in 1..Len(stepLog[c]) :
         IF i < Len(stepLog[c])
           THEN results[c][stepLog[c][i]] # "unset" /\ stepLog[c][i] \notin inflight[c]
           ELSE inflight[c] \subseteq {stepLog[c][i]}

\* C3 witness: the third request is in flight after the first two were answered.
C3_Witness ==
  \E c \in Callers : stepLog[c] = StepOrder /\ inflight[c] = {"subs"}

\* C4 (as claimed): a cycle that ran attempted all three steps, and a failed
\* step is recorded in its own slot, not as a cycle error.
C4_EveryStepAttempted ==
  \A c \in Callers :
    Executed(c) => (stepLog[c] = StepOrder /\ ret[c].results.error = "unset")

\* C5: no call ends with an exception: each ends with the skipped result or
\* the cycle result, and the cycle result records an error exactly when a
\* request it issued was not answered.
C5_NoExceptionEscapes ==
  \A c \in Callers :
    /\ pc[c] \in {"idle", "returned"} \cup Steps
    /\ pc[c] = "returned" => (WasSkipped(c) \/ Executed(c))
    /\ Executed(c) =>
         ((ret[c].results.error # "unset")
            <=> (\E i \in 1..Len(stepLog[c]) : ret[c].results[stepLog[c][i]] = "unset"))

\* C5 witness: the second request failed and the call returned a result
\* holding the error.
C5_Witness ==
  \E c \in Callers :
    /\ Executed(c) /\ stepLog[c] = <<"sync", "settle">>
    /\ ret[c].results.error = "message"

\* C6 (as claimed): every returned value carries durationMs and results.
C6_AlwaysDurationAndSteps ==
  \A c \in Callers :
    pc[c] = "returned" => {"durationMs", "results"} \subseteq DOMAIN ret[c]

\* C6 (amended): a call that was not skipped returns trigger, results,
\* durationMs (not negative) and timestamp, results holding the slots of the
\* steps; a skipped call returns only skipped and reason.
C6_DurationUnlessSkipped ==
  \A c \in Callers :
    pc[c] = "returned" =>
      \/ ret[c] = SkippedResult
      \/ /\ DOMAIN ret[c] = {"trigger", "results", "durationMs", "timestamp"}
         /\ ret[c].durationMs \in 0..MaxTime
         /\ ret[c].durationMs = ret[c].timestamp - startTime[c]
         /\ DOMAIN ret[c].results = {"sync", "settle", "subs", "error"}
         /\ ret[c].trigger = TriggerOf(c)

\* C6 witness: a cycle that ended with an error returned a positive duration.
C6_Witness ==
  \E c \in Callers :
    /\ Executed(c) /\ ret[c].results.error # "unset"
    /\ ret[c].durationMs > 0

(***************************************************************************)
(* Properties of the decision predicates (SpecDecide)                      *)
(***************************************************************************)
\* Numerals as the claims read them, by their characters.
IsPositiveNumeral(s) ==
  s # Undefined /\ AllDigits(s) /\ \E i \in 1..Len(s) : s[i] # "0"
IsNumeralOrMissing(s) ==
  \/ s = Undefined
  \/ s = <<>>
  \/ AllDigits(s)
  \/ (s[1] = "-" /\ AllDigits(Tail(s)))
HasSig(iou) == iou.sig # Undefined /\ iou.sig # <<>>

\* C7: shouldSettle returns true exactly for Closed with a claim whose
\* iouAmt is positive and whose sig is non-empty; for another state, no claim,
\* or a claim whose iouAmt is an integer or missing, it returns (false
\* otherwise) and does not throw.
C7_ShouldSettleIff ==
  dFn = "shouldSettle" =>
    /\ (dOut = Returned(TRUE))
         <=> (/\ dKind = "Closed"
              /\ dIou # NoIou
              /\ IsPositiveNumeral(dIou.iouAmt)
              /\ HasSig(dIou))
    /\ (dKind # "Closed" \/ dIou = NoIou \/ IsNumeralOrMissing(dIou.iouAmt))
         => dOut \in {Returned(TRUE), Returned(FALSE)}

\* C7 witness: a Closed channel with a positive signed claim was accepted.
C7_Witness ==
  /\ dFn = "shouldSettle" /\ dKind = "Closed"
  /\ dIou # NoIou /\ dOut = Returned(TRUE)

\* C8: shouldSub returns true exactly when the claim exists, its sig is
\* non-empty and iouAmt > currentSub + threshold: false at the sum, true at
\* the sum plus one.
C8_ShouldSubStrict ==
  dFn = "shouldSub" =>
    LET amt == IF dIou = NoIou THEN [ok |-> FALSE, val |-> 0]
               ELSE BigIntOf(OrZero(dIou.iouAmt))
        signed == dIou # NoIou /\ HasSig(dIou)
    IN /\ (dOut = Returned(TRUE))
            <=> (signed /\ amt.ok /\ amt.val > dSub + dThr)
       /\ (signed /\ amt.ok /\ amt.val = dSub + dThr) => dOut = Returned(FALSE)
       /\ (signed /\ amt.ok /\ amt.val = dSub + dThr + 1) => dOut = Returned(TRUE)
       /\ (~signed) => dOut = Returned(FALSE)

\* C8 witness: a signed claim one unit above currentSub + threshold, with a
\* positive threshold, was accepted.
C8_Witness ==
  /\ dFn = "shouldSub" /\ dIou # NoIou /\ dThr > 0 /\ dSub > 0
  /\ BigIntOf(OrZero(dIou.iouAmt)) = [ok |-> TRUE, val |-> dSub + dThr + 1]
  /\ dOut = Returned(TRUE)

(***************************************************************************)
(* Properties of the synchronizer (SpecSync)                               *)
(***************************************************************************)
\* The retry loop of this request has ended without getStates throwing.
LoopOver ==
  \/ spc = "putting"
  \/ (spc \in {"done", "idle"} /\ "success" \in DOMAIN reply)
AllReadsEmpty == \A i \in 1..Len(reads) : reads[i] = {}

\* C9: at most maxAttempts fetches; every fetch before the last one gave an
\* empty snapshot; once the loop is over the last fetch is the value of
\* subbits, and it is non-empty unless all maxAttempts were made; a delay
\* follows a fetch only if that fetch was empty and was not the last allowed.
C9_RetryStopsAtFirstNonEmpty ==
  /\ Len(reads) <= maxAttempts
  /\ \A i \in 1..(Len(reads) - 1) : reads[i] = {}
  /\ spc = "fetching" => (delays = Len(reads) /\ attempt = Len(reads) + 1)
  /\ spc = "delaying" =>
       (/\ delays = Len(reads)
        /\ reads[Len(reads)] = {}
        /\ Len(reads) < maxAttempts)
  /\ LoopOver =>
       (/\ Len(reads) >= 1
        /\ delays = Len(reads) - 1
        /\ subbits = reads[Len(reads)]
        /\ (subbits # {} \/ Len(reads) = maxAttempts))

\* C9 witness: reads [], [], [ch]: three fetches, two delays, the third used.
C9_Witness ==
  /\ LoopOver /\ Len(reads) = 3 /\ delays = 2
  /\ reads[3] # {} /\ subbits = reads[3]

\* C10: after maxAttempts empty snapshots the request ends with the no-op
\* answer, not an error; no putL1 call was made and the store is as it was.
C10_AllEmptyIsNoop ==
  (Len(reads) = maxAttempts /\ AllReadsEmpty) =>
    /\ spc \in {"done", "idle"}
    /\ reply = NoopReply
    /\ subbits = {}
    /\ putLog = {} /\ pending = {} /\ syncResult = {}
    /\ store = store0

\* C10 witness: five empty fetches ended in the no-op answer while the store
\* holds a record from an earlier run.
C10_Witness ==
  /\ Len(reads) = maxAttempts /\ AllReadsEmpty
  /\ spc = "done" /\ reply = NoopReply
  /\ \E k \in Keytags : store[k] # NoRecord

\* The channels of the fetched snapshot that are Opened and belong to the
\* provider of this request, and the store key of a channel.
Matching ==
  {s \in subbits : s.state.kind = "Opened" /\ s.state.provider = ProviderKeyHash}
KeyOf(s) == keytag(IouKeyOf(s.tag), s.tag)
TagsOf(subs) == {s.tag : s \in subs}
\* The request ended with the "Channels synced" answer.
Synced == spc = "done" /\ "syncResult" \in DOMAIN reply /\ reply.success

\* C11: putL1 is called for exactly the channels of the fetched snapshot that
\* are Opened and whose provider is the configured or request-supplied key
\* hash; a record changes only under the key of such a channel; when no
\* channel matches, the request ends with the no-op answer and its reason and
\* the store is as it was.
C11_SyncWritesExactlyMatching ==
  /\ putLog = {KeyOf(s) : s \in Matching}
  /\ \A k \in Keytags : store[k] # store0[k] => k \in {KeyOf(s) : s \in Matching}
  /\ (LoopOver /\ Matching = {}) =>
       (/\ reply = NoopReply
        /\ reply.message = "No channels found to sync"
        /\ store = store0 /\ syncResult = {})
  /\ (LoopOver /\ Matching # {} /\ spc # "putting") =>
       ("syncResult" \in DOMAIN reply /\ reply.success)

\* C11 witness: of two fetched channels one matches the request-supplied
\* provider and was written, the other is Closed or of another provider.
C11_Witness ==
  /\ spc = "done" /\ reqProvider = "P2"
  /\ \E s \in Matching : store[KeyOf(s)] # store0[KeyOf(s)]
  /\ \E s \in subbits : s \notin Matching /\ s.state.provider # "P2"
  /\ \E s \in subbits : s \notin Matching /\ s.state.kind = "Closed"

\* C12: every channel to sync gets its own entry in the result map, whatever
\* happened to the others: a failed putL1 is recorded under the tag of its
\* channel, a channel whose putL1 answered Right has its record stored, and
\* the request still ends with the synced answer listing all of them.
C12_IndependentUpserts ==
  /\ TagsOf({s \in subbits : <<s.tag, "Right">> \in syncResult})
       \cup TagsOf({s \in subbits : <<s.tag, "Left">> \in syncResult})
       \cup TagsOf({s \in subbits : <<s.tag, "rejected">> \in syncResult})
       = {e[1] : e \in syncResult}
  /\ \A e, f \in syncResult : e[1] = f[1] => e = f
  /\ \A s \in Matching :
       <<s.tag, "Right">> \in syncResult => store[KeyOf(s)] = [sub |-> s.state.subbed]
  /\ (spc \in {"done", "idle"} /\ putLog # {}) =>
       (/\ "syncResult" \in DOMAIN reply
        /\ reply.success
        /\ reply.channelCount = Cardinality(Matching)
        /\ reply.syncResult = syncResult
        /\ {e[1] : e \in syncResult} = TagsOf(Matching))

\* C12 witness: one putL1 failed, the other channel was stored and reported.
C12_Witness ==
  /\ Synced
  /\ \E s, t \in Matching :
       /\ (<<s.tag, "Left">> \in syncResult \/ <<s.tag, "rejected">> \in syncResult)
       /\ <<t.tag, "Right">> \in syncResult
       /\ store[KeyOf(t)] = [sub |-> t.state.subbed]
       /\ store[KeyOf(s)] = store0[KeyOf(s)]

\* C13: the record of a channel that is absent from the fetched snapshot is
\* left as it was when the request arrived.
C13_AbsentChannelsUntouched ==
  \A t \in Tags :
    t \notin TagsOf(subbits) =>
      store[keytag(IouKeyOf(t), t)] = store0[keytag(IouKeyOf(t), t)]

\* C13 witness: a channel stored by an earlier run is missing from this
\* snapshot; another channel was written and the missing one kept its record.
C13_Witness ==
  /\ Synced
  /\ \E t \in Tags :
       /\ t \notin TagsOf(subbits)
       /\ store0[keytag(IouKeyOf(t), t)] # NoRecord
       /\ store[keytag(IouKeyOf(t), t)] = store0[keytag(IouKeyOf(t), t)]
  /\ \E s \in Matching : store[KeyOf(s)] # store0[KeyOf(s)]

\* C14 (as claimed): with config.DRY_RUN set, a request that found channels
\* to sync reports their number, calls putL1 for none and leaves the store
\* as it was.
C14_DryRunLeavesStore ==
  (cfgDryRun /\ LoopOver /\ Matching # {}) =>
    (/\ putLog = {}
     /\ store = store0
     /\ spc # "putting"
     /\ "channelCount" \in DOMAIN reply
     /\ reply.channelCount = Cardinality(Matching))

(***************************************************************************)
(* Properties of the settlement and claim processors (SpecProc)            *)
(***************************************************************************)
\* The stored claim the lookup of process-closed-channels yields for a tag:
\* the first one, in the order of the store, whose keytag ends in the tag.
ClaimIndexes(tag) == {i \in 1..Len(ious) : ious[i].keytag[2] = tag}
HasClaim(tag) == ClaimIndexes(tag) # {}
FirstClaim(tag) ==
  ious[CHOOSE i \in ClaimIndexes(tag) : \A j \in ClaimIndexes(tag) : i <= j]
AmountOf(e) == BigIntOf(e.iouAmt)
Signed(e) == e.sig # <<>> /\ e.sig # Undefined
OwnClosed(s) == s.state.kind = "Closed" /\ s.state.provider = cfgProvider
\* The handler returned a results list (it did not throw).
Reported == ppc = "done" /\ "results" \in DOMAIN pReply
Submitting == ppc \in {"batch", "single", "confirming", "postSync"}
SubmittedJobs == UNION {submits[i].members : i \in 1..Len(submits)}
ResultsFor(key) == {r \in pResults : r.key = key}
Ended(status) == status \in {"failed", "confirmed", "unconfirmed"}

\* C15 (as claimed): when a run of process-closed-channels has ended after
\* getIous gave the stored claims, every channel of the snapshot that is
\* Closed, owned by config.PROVIDER_KEY_HASH and whose claim has iouAmt > 0
\* and a non-empty sig is in a settlement submission, and no other channel is.
C15_EveryEligibleSettled ==
  (pProc = "settle" /\ ppc = "done" /\ ious # <<>>) =>
    /\ \A s \in chain :
         (/\ OwnClosed(s) /\ HasClaim(s.tag)
          /\ AmountOf(FirstClaim(s.tag)).ok
          /\ AmountOf(FirstClaim(s.tag)).val > 0
          /\ Signed(FirstClaim(s.tag)))
           => \E j \in SubmittedJobs : j.subbit = s
    /\ \A j \in SubmittedJobs : j.subbit \in chain /\ OwnClosed(j.subbit)

\* C15, for the runs that do not throw: the channels put into a settlement
\* submission are exactly the channels of the
\* snapshot that are Closed, owned by config.PROVIDER_KEY_HASH and whose
\* claim (the first stored claim whose keytag ends in the tag) has
\* iouAmt > 0 and a non-empty sig, each with that claim's amount and sig; no
\* channel that is not Closed or belongs to another provider is in one.
C15_SettlesExactlyEligible ==
  (pProc = "settle" /\ (Submitting \/ Reported)) =>
    /\ \A s \in chain :
         (/\ OwnClosed(s) /\ HasClaim(s.tag)
          /\ AmountOf(FirstClaim(s.tag)).ok
          /\ AmountOf(FirstClaim(s.tag)).val > 0
          /\ Signed(FirstClaim(s.tag)))
           => Job(s.tag, s, AmountOf(FirstClaim(s.tag)).val,
                  FirstClaim(s.tag).sig) \in jobs
    /\ \A j \in jobs :
         /\ j.subbit \in chain /\ OwnClosed(j.subbit)
         /\ HasClaim(j.subbit.tag)
         /\ j.iouAmount > 0 /\ j.iouAmount = AmountOf(FirstClaim(j.subbit.tag)).val
         /\ j.iouSignature = FirstClaim(j.subbit.tag).sig /\ Signed(FirstClaim(j.subbit.tag))
    /\ SubmittedJobs \subseteq jobs
    /\ Reported => SubmittedJobs = jobs

\* C15 witness: a Closed channel of the provider with a usable claim was
\* submitted; the other channel of the snapshot, Closed too but of another
\* provider, was not.
C15_Witness ==
  /\ pProc = "settle" /\ Reported
  /\ \E s, t \in chain :
       /\ OwnClosed(s) /\ \E j \in SubmittedJobs : j.subbit = s
       /\ t.state.kind = "Closed" /\ t.state.provider # cfgProvider
       /\ HasClaim(t.tag) /\ AmountOf(FirstClaim(t.tag)).val > 0
       /\ Signed(FirstClaim(t.tag))
       /\ \A j \in SubmittedJobs : j.subbit # t

\* C16 (as claimed): when a run of process-closed-channels has ended after
\* getIous gave the stored claims, the answer lists a failure with a reason
\* for every Closed channel of the provider that has no stored claim or
\* whose claim has an amount <= 0 or no sig.
C16_EveryUngatedReported ==
  (pProc = "settle" /\ ppc = "done" /\ ious # <<>>) =>
    \A s \in {x \in chain : OwnClosed(x)} :
      (\/ ~HasClaim(s.tag)
       \/ (AmountOf(FirstClaim(s.tag)).ok /\ AmountOf(FirstClaim(s.tag)).val <= 0)
       \/ ~Signed(FirstClaim(s.tag)))
        => /\ "results" \in DOMAIN pReply
           /\ \E r \in pReply.results : r.key = s.tag /\ ~r.success /\ r.error # ""

\* C16, for the runs that do not throw: a Closed channel of the provider
\* without a stored claim gets the failure "No IOU
\* found", one whose claim has an amount <= 0 or no sig gets the failure "No
\* claimable IOU amount", and such a channel does not stop the others: every
\* Closed channel of the provider is either failed at the gate or a job.
C16_UngatedRecordedAsFailure ==
  (pProc = "settle" /\ (Submitting \/ Reported)) =>
    \A s \in {x \in chain : OwnClosed(x)} :
      /\ ~HasClaim(s.tag) => Failure(s.tag, "No IOU found") \in pResults
      /\ (HasClaim(s.tag) /\ (AmountOf(FirstClaim(s.tag)).val <= 0
                               \/ ~Signed(FirstClaim(s.tag))))
           => Failure(s.tag, "No claimable IOU amount") \in pResults
      /\ (\E j \in jobs : j.subbit = s)
           \/ (\E r \in ResultsFor(s.tag) : ~r.success /\ r.txHash = 0)
      /\ Reported => Cardinality(ResultsFor(s.tag)) = 1

\* C16 witness: one channel failed at the gate and the other was submitted
\* and reported as a success.
C16_Witness ==
  /\ pProc = "settle" /\ Reported
  /\ \E s, t \in chain :
       /\ OwnClosed(s) /\ OwnClosed(t)
       /\ (Failure(s.tag, "No IOU found") \in pResults
           \/ Failure(s.tag, "No claimable IOU amount") \in pResults)
       /\ \E r \in ResultsFor(t.tag) : r.success

\* C17: with validatorRef set a run that has jobs enters one try block, for
\* all jobs together; without it the run enters one try block per job, each
\* for one job of its own, and a try block is entered only after the
\* previous one has ended; a run without jobs enters none.
C17_OneBatchOrOnePerJob ==
  /\ jobs = {} => submits = <<>>
  /\ (jobs # {} /\ validatorRef) =>
       submits = <<Submit(jobs, "batch", submits[1].status)>>
  /\ (jobs # {} /\ ~validatorRef) =>
       /\ Len(submits) >= 1
       /\ \A i \in 1..Len(submits) :
            /\ submits[i].mode = "single"
            /\ Cardinality(submits[i].members) = 1
            /\ submits[i].members \subseteq jobs
            /\ i < Len(submits) => Ended(submits[i].status)
            /\ \A k \in 1..Len(submits) :
                 submits[i].members = submits[k].members => i = k
       /\ (ppc \in {"postSync", "done"}) => Len(submits) = Cardinality(jobs)

\* C17 witness: the claim processor submitted two jobs as one batch.
C17_Witness ==
  /\ pProc = "subs" /\ Reported /\ validatorRef
  /\ Cardinality(jobs) = 2
  /\ Len(submits) = 1 /\ submits[1].members = jobs
  /\ submits[1].status = "accepted"

\* C18: when the batch try block ends in the catch, every job of the batch
\* has a failure result and none has a success result; the run reports no
\* success at all.
C18_FailedBatchFailsEveryMember ==
  \A i \in 1..Len(submits) :
    (submits[i].mode = "batch" /\ submits[i].status = "failed") =>
      /\ \A j \in submits[i].members :
           /\ \E r \in ResultsFor(j.key) : ~r.success
           /\ \A r \in ResultsFor(j.key) : ~r.success
      /\ Reported => (pReply.successful = 0 /\ pReply.failed = pReply.processed)

\* C18 witness: a batch of two settlements failed and both are reported failed.
C18_Witness ==
  /\ pProc = "settle" /\ Reported
  /\ Len(submits) = 1 /\ submits[1].mode = "batch" /\ submits[1].status = "failed"
  /\ Cardinality(submits[1].members) = 2
  /\ pReply.failed = 2

\* C19: without validatorRef every try block that ended has the result of
\* its own job and of no other: a failure when submitting or confirming
\* threw, a success otherwise; when the run returns every job has been
\* through its own try block and has exactly one result.
C19_FallbackFailuresAreLocal ==
  ~validatorRef =>
    /\ \A i \in 1..Len(submits) : \A j \in submits[i].members :
         /\ submits[i].status \in {"failed", "unconfirmed"} =>
              (\A r \in ResultsFor(j.key) : ~r.success) /\ ResultsFor(j.key) # {}
         /\ submits[i].status = "confirmed" => Success(j.key, i) \in pResults
         /\ ~Ended(submits[i].status) => ResultsFor(j.key) = {}
    /\ (ppc \in {"postSync", "done"} /\ jobs # {}) =>
         /\ SubmittedJobs = jobs
         /\ \A j \in jobs : Cardinality(ResultsFor(j.key)) = 1
         /\ \A i \in 1..Len(submits) : Ended(submits[i].status)

\* C19 witness: the first submission failed, the second was made and succeeded.
C19_Witness ==
  /\ Reported /\ ~validatorRef
  /\ Len(submits) = 2
  /\ submits[1].status = "failed" /\ submits[2].status = "confirmed"
  /\ pReply.successful = 1 /\ pReply.failed >= 1

\* C20 (as claimed): once submit() has given a txHash the handler goes on
\* without awaiting the confirmation of that transaction, with and without
\* validatorRef.
C20_NeverWaitsForConfirmation ==
  \A i \in 1..Len(submits) :
    submits[i].status = "accepted" => ppc # "confirming"

\* C21 (as claimed): with config.DRY_RUN set, process-closed-channels never
\* gets as far as signing and submitting: no try block reaches a txHash and
\* no result carries one.
C21_DryRunNeverSubmits ==
  (cfgDryRun /\ pProc = "settle") =>
    /\ \A i \in 1..Len(submits) :
         submits[i].status \notin {"accepted", "confirmed", "unconfirmed"}
    /\ \A r \in pResults : r.txHash = 0

\* C22 (as claimed): every sub that process-ious puts into a submission has
\* an amount strictly above the on-chain subbed of its channel plus the
\* configured threshold.
C22_SubOnlyAboveThreshold ==
  pProc = "subs" =>
    \A j \in SubmittedJobs :
      /\ j.subbit.state.kind = "Opened"
      /\ j.iouAmount > j.subbit.state.subbed + cfgThreshold

\* The Opened channel an IOU refers to, if the chain read has one.
OpenedFor(e) == {s \in chain : s.tag = e.ref /\ s.state.kind = "Opened"}

\* C23 (as claimed): in process-ious a claim on an Opened channel that is
\* unusable (no sig) or does not exceed subbed plus the threshold leaves no
\* entry in results, neither a success nor a failure.
C23_SkippedSilently ==
  (pProc = "subs" /\ (Submitting \/ Reported)) =>
    \A e \in Entries(ious) : \A s \in OpenedFor(e) :
      (AmountOf(e).ok /\ (~Signed(e) \/ AmountOf(e).val <= s.state.subbed + cfgThreshold))
        => ResultsFor(e.keytag) = {}

\* C25 (as claimed): a pass ends with the error answer only when a remote
\* read failed (getStates, getIous, utxosAt); a stored claim that cannot be
\* decoded never makes the pass end without its results list.
C25_BadRecordNeverAborts ==
  (ppc = "done" /\ "error" \in DOMAIN pReply) =>
    IF pProc = "settle" THEN ious = <<>> ELSE chain = {}

C24_SecondRunSubmitsNothing ==
  (pProc = "subs" /\ runs > 0 /\ "failed" \in DOMAIN prev /\ prev.failed = 0) =>
    jobs = {} /\ submits = <<>>

\* The words of the claim: a transient infrastructure error names a
\* connection refusal, a timeout, a DNS failure, a failed fetch, a rate limit
\* or a Blockfrost 5xx in its message or in its cause; an application error
\* has one of the patterns of insufficient funds or collateral, an output
\* below the minimum or a missing UTxO in its message.
HasWord(text, w) == \E i \in 1..Len(text) : text[i] = w
Follows(text, w1, w2) == \E i \in 1..(Len(text) - 1) : text[i] = w1 /\ text[i + 1] = w2
TransientText(text) ==
  \/ HasWord(text, "ECONNREFUSED") \/ HasWord(text, "ETIMEDOUT") \/ HasWord(text, "ENOTFOUND")
  \/ Follows(text, "fetch", "failed") \/ Follows(text, "rate", "limit")
  \/ HasWord(text, "429")
  \/ (HasWord(text, "Blockfrost") /\ HasWord(text, "502"))
Transient == TransientText(StringOf(eMsg)) \/ TransientText(StringOf(eCause))
Application ==
  \E w \in {"not have enough funds", "minimum ADA", "minAda", "EMPTY_UTXO", "No UTxO"} :
    HasWord(StringOf(eMsg), w)

\* C27: once parseLucidError has returned, a transient infrastructure error
\* (pattern in the message or in the cause) never got 500 and got 503 unless
\* its message also has an application pattern; an application pattern
\* always gives 400; 500 is given only to errors of neither kind.
C27_ClassifierStatus ==
  eOut # NoReply =>
    /\ Application => eOut.statusCode = 400
    /\ (Transient /\ ~Application) => eOut.statusCode = 503
    /\ Transient => eOut.statusCode # 500
    /\ eOut.statusCode = 500 => (~Transient /\ ~Application)
\* A timeout named only by the cause was answered 503.
C27_Witness ==
  /\ eOut # NoReply
  /\ ~TransientText(StringOf(eMsg)) /\ eCause = <<"ETIMEDOUT">>
  /\ eOut.statusCode = 503

\* Where an amount stands: its run and its place in the run.
RunOf(d) == CHOOSE r \in 1..Len(Runs) : d \in RunSet(Runs[r])
PlaceOf(d) == CHOOSE o \in 1..Len(Runs[RunOf(d)]) : Runs[RunOf(d)][o] = d
\* The amount an iouAmt numeral writes
Written(s) == CHOOSE d \in BigAmounts : NumeralOf(d) = s
\* a > s + t for a threshold t of the first run; the runs lie further apart
\* than any threshold drawn
Exceeds(a, s, t) ==
  \/ RunOf(a) > RunOf(s)
  \/ RunOf(a) = RunOf(s) /\ PlaceOf(a) > PlaceOf(s) + (PlaceOf(t) - 1)

\* C28: shouldSub returns true exactly when the claim is signed and its
\* amount is greater than currentSub + threshold as integers, and
\* shouldSettle (on a Closed channel) exactly when the claim is signed and
\* its amount is not zero, whatever the magnitude: also for amounts at and
\* above 2^53 that differ by one unit.
C28_ExactComparison ==
  /\ nFn = "shouldSub" =>
       nOut = Returned(/\ nIou # NoIou
                       /\ ~Falsy(nIou.sig)
                       /\ Exceeds(Written(nIou.iouAmt), nSub, nThr))
  /\ nFn = "shouldSettle" =>
       nOut = Returned(/\ nIou # NoIou
                       /\ ~Falsy(nIou.sig)
                       /\ Written(nIou.iouAmt) # <<0>>)
\* shouldSub said yes to 2^53 + 1 against 2^53 subbed with no threshold.
C28_Witness ==
  /\ nFn = "shouldSub" /\ nOut = Returned(TRUE)
  /\ nIou # NoIou /\ nIou.iouAmt = NumeralOf(P53Run[3])
  /\ nSub = P53Run[2] /\ nThr = <<0>>

\* C29: a call of runLiaisonCycle made while a cycle is running returns the
\* skipped result at once and is dropped: it has injected nothing, and it
\* injects nothing later, also once the running cycle has ended.  A call
\* made while no cycle is running starts one, and a cycle starts in no other
\* way: the cycles executed are the calls that were not skipped.
C29_SkippedIsDropped ==
  [][\A c \in Callers :
       /\ (pc[c] = "idle" /\ pc'[c] # "idle") =>
            IF running
              THEN /\ pc'[c] = "returned" /\ ret'[c] = SkippedResult
                   /\ inflight'[c] = {} /\ stepLog'[c] = <<>>
              ELSE /\ pc'[c] = FirstStep /\ running'
                   /\ stepLog'[c] = <<FirstStep>>
       /\ ret[c] = SkippedResult =>
            /\ pc'[c] \in {"returned", "idle"}
            /\ inflight'[c] = {} /\ stepLog'[c] = <<>>
       /\ (stepLog[c] = <<>> /\ stepLog'[c] # <<>>) => (pc[c] = "idle" /\ ~running)
  ]_vars
\* A skipped call has not been taken up although the cycle that made it
\* skip has ended.
C29_Witness ==
  \E c \in Callers :
    /\ pc[c] = "returned" /\ ret[c] = SkippedResult
    /\ ~running /\ \A d \in Callers : pc[d] \notin Steps

\* C30: when every remote call returns or raises, every cycle that started
\* ends with a returned result and the flag `running` is cleared again; the
\* retry loop of the sync handler makes at most maxAttempts reads; and a
\* cycle leaves its steps in no other way than by the answer to its last
\* request or by a caught error: nothing cancels it.
C30_CycleTerminates ==
  /\ \A c \in CycleCallers : (pc[c] \in Steps) ~> (pc[c] = "returned")
  /\ running ~> ~running
  /\ [](attempt <= maxAttempts /\ Len(reads) <= maxAttempts)
  /\ [][\A c \in CycleCallers :
          (pc[c] \in Steps /\ pc'[c] \notin Steps) =>
             /\ pc'[c] = "returned" /\ ~running'
             /\ results'[c].subs # "unset" \/ results'[c].error # "unset"]_vars
\* A cycle has ended after the sync handler used all of its reads.
C30_Witness ==
  /\ ~running
  /\ Len(reads) = maxAttempts
  /\ \E c \in CycleCallers : pc[c] = "returned" /\ "durationMs" \in DOMAIN ret[c]

\* The channels a submission is about
ChannelsOf(subm) == {j.subbit.tag : j \in subm.members}
\* No two claim records point at the same output.
DistinctRefs ==
  \A i, k \in 1..Len(ious) : (i # k /\ ious[i].ref # NoRef) => ious[i].ref # ious[k].ref

\* C31: in one run of process-closed-channels or process-ious no channel is
\* in two submissions (claim records pointing at distinct outputs), and a
\* batch submission, failed or not, is the only submission of its run.
C31_OneAttemptPerChannel ==
  /\ DistinctRefs =>
       \A i, k \in 1..Len(submits) :
         i # k => ChannelsOf(submits[i]) \cap ChannelsOf(submits[k]) = {}
  /\ \A i \in 1..Len(submits) : submits[i].mode = "batch" => Len(submits) = 1
\* A batch of two channels failed and the run ended without another attempt.
C31_Witness ==
  /\ ppc = "done" /\ Len(submits) = 1
  /\ submits[1].mode = "batch" /\ submits[1].status = "failed"
  /\ \E j1, j2 \in submits[1].members : j1.subbit.tag # j2.subbit.tag

\* C32 (as claimed): once getIous has given the stored claims to a run of
\* process-closed-channels, a Closed channel of the provider with a matched
\* claim record is admitted to the jobs of the run exactly when
\* shouldSettle("Closed", claim) returns true, also when the record matched
\* to some channel lacks iouAmt or sig.
C32_GateAgreesWithShouldSettle ==
  (pProc = "settle" /\ ppc # "getIous") =>
    \A s \in {x \in chain : OwnClosed(x) /\ HasClaim(x.tag)} :
      (\E j \in jobs : j.subbit = s)
        <=> (shouldSettle("Closed", FirstClaim(s.tag)) = Returned(TRUE))

(***************************************************************************)
(* Properties of the claim lookup (SpecMatch)                              *)
(***************************************************************************)
\* C33: a stored claim record is matched to a Closed channel exactly when
\* the part of its keytag after the first 64 hex characters equals the
\* channel's tag hex; the lookups of process-closed-channels and
\* settle-channel yield a record stored for the channel's tag when there is
\* one, none otherwise, and never a record stored for another tag.
C33_ExactTagMatch ==
  mFn # "none" =>
    /\ \A i \in 1..Len(mIous) :
         Matches(mIous[i].keytagHex, mTag) <=> mIous[i].tag = mTag
    /\ mOut # NoIou => mOut.tag = mTag
    /\ mOut = NoIou <=> \A i \in 1..Len(mIous) : mIous[i].tag # mTag
C33_Witness ==
  /\ mFn = "process-closed-channels" /\ mOut # NoIou
  /\ \E i \in 1..Len(mIous) :
       /\ mIous[i].tag # mTag
       /\ MatchesTail(mIous[i].keytagHex, mTag)
       /\ \A k \in 1..Len(mIous) : mIous[k] = mOut => i < k

\* C34: every sub that process-ious puts into a submission is for an output
\* of the utxosAt read of that run that is an Opened channel, and carries
\* the amount of the stored claim, which is strictly greater than the
\* subbed of that output.
C34_SubRaisesSubbed ==
  pProc = "subs" =>
    \A j \in SubmittedJobs :
      /\ j.subbit \in chain
      /\ j.subbit.state.kind = "Opened"
      /\ j.iouAmount > j.subbit.state.subbed
      /\ \E e \in Entries(ious) :
           /\ e.keytag = j.key /\ e.ref = j.subbit.tag
           /\ AmountOf(e).ok /\ AmountOf(e).val = j.iouAmount
C34_Witness ==
  /\ pProc = "subs" /\ Reported
  /\ \E i \in 1..Len(submits) : submits[i].status \in {"accepted", "confirmed"}
  /\ \E e \in Entries(ious) : \E s \in OpenedFor(e) :
       /\ Signed(e) /\ AmountOf(e).ok /\ AmountOf(e).val = s.state.subbed
       /\ \A j \in SubmittedJobs : j.key # e.keytag

\* C35: in batch mode the results are successes for every job when the
\* transaction was accepted for submission and failures for every job when
\* it was not; and when the confirmation of an accepted batch transaction
\* settles, fulfilled or rejected, the results, the answer of the run, the
\* submissions, the local store and the flag `running` stay as they were.
C35_ConfirmationOnlyLogged ==
  /\ [](\A i \in 1..Len(submits) :
          (submits[i].mode = "batch" /\ submits[i].status # "started") =>
            \A j \in submits[i].members :
              \E r \in pResults :
                /\ r.key = j.key
                /\ r.success <=> submits[i].status = "accepted")
  /\ [][detached' < detached =>
          /\ pResults' = pResults /\ pReply' = pReply /\ submits' = submits
          /\ ppc' = ppc /\ store' = store /\ running' = running]_vars
C35_Witness ==
  /\ Reported /\ detached = 0
  /\ Len(submits) = 1 /\ submits[1].mode = "batch" /\ submits[1].status = "accepted"
  /\ \A j \in submits[1].members : \E r \in pReply.results : r.key = j.key /\ r.success

(***************************************************************************)
(* Properties of settlement requests in a row (SpecResettle)               *)
(***************************************************************************)
\* C36 (as claimed): no settlement submission includes the output of a
\* Closed channel that an earlier accepted settlement submission, still
\* waiting for the chain, already includes.
C36_AtMostOneSubmission ==
  \A i \in 1..Len(submits) :
    submits[i].status = "started" =>
      \A j \in submits[i].members : \A w \in mempool : w.subbit # j.subbit

(***************************************************************************)
(* More properties of the synchronizer (SpecSync)                          *)
(***************************************************************************)
\* C37: the retry loop of sync-from-chain reads again only after an empty
\* snapshot; a read that gives a non-empty snapshot without an Opened
\* channel of the provider is the last read of the request, made at the
\* attempt the loop stands at, and the request has ended with the no-op
\* answer.
C37_RetryOnlyOnEmptySnapshot ==
  /\ \A i \in 1..(Len(reads) - 1) : reads[i] = {}
  /\ (/\ Len(reads) > 0
      /\ reads[Len(reads)] # {}
      /\ OpenedChannels(reads[Len(reads)], ProviderKeyHash) = {}) =>
       /\ spc \in {"done", "idle"} /\ reply = NoopReply
       /\ attempt = Len(reads) /\ delays = Len(reads) - 1
C37_Witness ==
  /\ spc = "done" /\ reply = NoopReply
  /\ Len(reads) = 2 /\ reads[2] # {}
  /\ \E s \in reads[2] : s.state.kind = "Opened"

(***************************************************************************)
(* More properties of the settlement and claim processors (SpecProc)       *)
(***************************************************************************)
\* C38: an answer of process-closed-channels or process-ious that carries a
\* results list has processed = the number of results = successful +
\* failed, and successful = the number of results with success true; the
\* results are one per Closed channel of the provider, or one per stored
\* claim that was not skipped, and a skipped claim has no result.
C38_CountsAgreeWithResults ==
  Reported =>
    /\ pReply.processed = Cardinality(pReply.results)
    /\ pReply.processed = pReply.successful + pReply.failed
    /\ pReply.successful = Cardinality({r \in pReply.results : r.success})
    /\ pProc = "settle" =>
         pReply.processed = Cardinality(ClosedChannels(chain))
    /\ pProc = "subs" =>
         /\ pReply.processed =
              Cardinality({e \in Entries(ious) : SubOutcome(e, chain) # "skip"})
         /\ \A e \in Entries(ious) :
              SubOutcome(e, chain) = "skip" =>
                \A r \in pReply.results : r.key # e.keytag
C38_Witness ==
  /\ Reported /\ pProc = "subs"
  /\ pReply.successful > 0 /\ pReply.processed < Len(ious)
  /\ \E e \in Entries(ious) : SubOutcome(e, chain) = "skip"

(***************************************************************************)
(* Properties of POST /l1/liaison-run without runLiaisonCycle              *)
(* (SpecFallback)                                                          *)
(***************************************************************************)
FallbackOrder == <<"sync", "settle", "subs">>

\* C39: without runLiaisonCycle a request to POST /l1/liaison-run issues
\* sync, settle and subs in that order, every one of them whatever became
\* of the ones before: a step that threw has the caught error in its own
\* slot and the next step was issued; the result has trigger
\* "manual-fallback" and all three slots, and no cycle-level error; the flag
\* `running` is not involved.
C39_FallbackStepsGuardedApart ==
  /\ ~running
  /\ \A c \in ManualCallers :
       /\ Len(stepLog[c]) <= 3
       /\ \A i \in 1..Len(stepLog[c]) : stepLog[c][i] = FallbackOrder[i]
       /\ \A i \in 1..3 :
            results[c][FallbackOrder[i]] # "unset" =>
              /\ i <= Len(stepLog[c])
              /\ i < 3 => Len(stepLog[c]) > i
              /\ i = 3 => pc[c] = "returned"
       /\ results[c].error = "unset"
       /\ pc[c] = "returned" =>
            /\ stepLog[c] = FallbackOrder
            /\ \A s \in Steps : results[c][s] # "unset"
            /\ DOMAIN ret[c] = {"trigger", "results", "timestamp"}
            /\ ret[c].results = results[c]
            /\ ret[c].trigger = "manual-fallback"
C39_Witness ==
  \E c \in ManualCallers :
    /\ pc[c] = "returned"
    /\ results[c].sync = CaughtSlot
    /\ results[c].settle = "body" /\ results[c].subs = "body"

=============================================================================
